---- MODULE Spec2Model ----
(***************************************************************************)
(* Assistant Manager backend: the assistant agent's four-stage pipeline,   *)
(* the HTTP routes in front of it, the kanban/team-member tables with the  *)
(* change-approval bookkeeping, and the persisted form of the agent state. *)
(***************************************************************************)
EXTENDS Naturals, Integers, Sequences, FiniteSets, TLC

(***************************************************************************)
(* Bounds of the model.                                                    *)
(***************************************************************************)
\* process_message invocations per behaviour
MaxInv == 2
\* Task rows
MaxTasks == 1
\* KanbanChange rows
MaxChanges == 2
\* messages of a conversation put through the persisted form
MaxMsgs == 12
MaxSpawned == 3
MaxRuns == 2
MaxThreads == 1
MaxMemberId == 3
MaxConns == 3
MaxInboxThreads == 2
MaxEmails == 2
MaxFollowUps == 1
MaxColumn == 2

Procs == 1..MaxInv

VARIABLES
    registered,     \* dependencies._assistant_agent is set
    is_active,      \* AssistantAgent.is_active
    graph,          \* AssistantAgent.graph is not None
    llm_available,  \* LLMService.is_available
    state,          \* AssistantAgent.state (the one in-memory AgentState)
    pc,             \* where each process_message invocation stands
    action_local,   \* the local `action` of a running _execute_action
    msg,            \* the message argument of each invocation
    base,           \* len(state.messages) when the invocation was entered
    trace,          \* pipeline stages each invocation has entered, in order
    ret,            \* what process_message returned to its caller
    resp,           \* the HTTP response of each POST /api/agents/query
    arrival,        \* what the route saw of the agent when the query arrived
    called,         \* process_message was called for the query
    persisted,      \* AgentStateModel rows with key "main_agent_state"
    original,       \* the AgentState the persisted form was taken from
    ser_step,       \* "fresh", "saved" or "loaded"
    db,             \* the TeamMember, Task and KanbanChange tables
    before,         \* the tables as the last request found them
    req,            \* the last request served on the tables
    out,            \* its response (a tool's returned string for a tool)
    llm_call,       \* a call of LLMService.generate_simple_response
    sched,          \* the SchedulerService and the schedule library's jobs
    pub,            \* GitTools, the GitHub settings and the temp directories
    wf,             \* the WorkflowSettings table and the last request on it
    ws,             \* the ConnectionManager and its last broadcast
    boot            \* what AssistantAgent.initialize went through

lifeVars == <<registered, is_active, graph, llm_available>>

agentVars == <<registered, is_active, graph, llm_available, state, pc,
               action_local, msg, base, trace, ret, resp, arrival, called>>

serVars == <<persisted, original, ser_step>>

dbVars == <<db, before, req, out>>

svcVars == <<llm_call, sched, pub, wf, ws, boot>>

None == "None"

(***************************************************************************)
(* Text helpers: Python's str.lower() and the `word in text` test.         *)
(***************************************************************************)
\* str.lower() on one character
LowerChar(c) ==
    CASE c = "A" -> "a"
      [] c = "B" -> "b"
      [] c = "C" -> "c"
      [] c = "D" -> "d"
      [] c = "E" -> "e"
      [] c = "F" -> "f"
      [] c = "G" -> "g"
      [] c = "H" -> "h"
      [] c = "I" -> "i"
      [] c = "J" -> "j"
      [] c = "K" -> "k"
      [] c = "L" -> "l"
      [] c = "M" -> "m"
      [] c = "N" -> "n"
      [] c = "O" -> "o"
      [] c = "P" -> "p"
      [] c = "Q" -> "q"
      [] c = "R" -> "r"
      [] c = "S" -> "s"
      [] c = "T" -> "t"
      [] c = "U" -> "u"
      [] c = "V" -> "v"
      [] c = "W" -> "w"
      [] c = "X" -> "x"
      [] c = "Y" -> "y"
      [] c = "Z" -> "z"
      [] OTHER -> c

\* the characters i..j of s in lower case, by halves
RECURSIVE LowerFrom(_, _, _)
LowerFrom(s, i, j) ==
    IF i > j THEN ""
    ELSE IF i = j THEN LowerChar(SubSeq(s, i, i))
    ELSE LowerFrom(s, i, (i + j) \div 2) \o LowerFrom(s, (i + j) \div 2 + 1, j)

\* str.lower()
Lower(s) == LowerFrom(s, 1, Len(s))

\* word in text
Contains(text, word) ==
    { i \in 1..(Len(text) + 1 - Len(word)) :
        SubSeq(text, i, i + Len(word) - 1) = word } # {}

\* any(word in text for word in words)
AnyWordIn(text, words) == { w \in words : Contains(text, w) } # {}

(***************************************************************************)
(* Messages the callers submit.                                            *)
(***************************************************************************)
MsgSyncBoard == "sync the board to github pages"
MsgSendWeekly == "send weekly update to the team"
MsgStatusQuestion == "what's our status this week"
MsgNoKeyword == "Hello, how are you?"

Messages == {MsgSyncBoard, MsgSendWeekly, MsgStatusQuestion, MsgNoKeyword}

\* the messages of the agent's unit tests
MsgUpdateKanban == "update kanban board"
MsgSendEmailUpdates == "send email updates"
MsgShowStatus == "show me the status"
MsgStatusReport == "status report"

TestMessages ==
    {MsgUpdateKanban, MsgSendEmailUpdates, MsgShowStatus, MsgStatusReport}

AllMessages == Messages \cup TestMessages

(***************************************************************************)
(* AgentState                                                              *)
(***************************************************************************)
\* in memory a message is an object of its class
HumanMessage(text) == [kind |-> "HumanMessage", content |-> text]
AIMessage(text) == [kind |-> "AIMessage", content |-> text]

EmptyContext == [k \in {} |-> None]

NewAgentState ==
    [ current_workflow |-> None,
      active_tasks     |-> <<>>,
      pending_approvals |-> <<>>,
      context          |-> EmptyContext,
      messages         |-> <<>>,
      error_count      |-> 0,
      last_error       |-> None,
      workflow_step    |-> "idle" ]

\* dict.get(key, default)
Get(d, k, default) == IF k \in DOMAIN d THEN d[k] ELSE default

\* d[key] = value
Put(d, k, v) == [x \in (DOMAIN d) \cup {k} |-> IF x = k THEN v ELSE d[x]]

add_error(s, error) ==
    [s EXCEPT !.error_count = @ + 1, !.last_error = error]

reset_errors(s) ==
    [s EXCEPT !.error_count = 0, !.last_error = None]

(***************************************************************************)
(* The persisted form of an AgentState.  to_dict keeps the last            *)
(* KeepMessages messages as {"type", "content"} dicts; from_dict rebuilds  *)
(* the two message classes it knows and drops any other type.  The JSON    *)
(* text written by _save_state and read by _load_state carries strings,    *)
(* booleans, lists and string-keyed dicts, which it returns as they were.  *)
(***************************************************************************)
KeepMessages == 10

\* messages[-n:]
LastN(seq, n) == IF Len(seq) <= n THEN seq ELSE SubSeq(seq, Len(seq) - n + 1, Len(seq))

\* type(msg).__name__
TypeName(m) == m.kind

MessageDict(m) == [type |-> TypeName(m), content |-> m.content]

\* a to_dict that keeps the first messages instead of the last
to_dict_keeping_first(s) ==
    [ current_workflow  |-> s.current_workflow,
      active_tasks      |-> s.active_tasks,
      pending_approvals |-> s.pending_approvals,
      context           |-> s.context,
      error_count       |-> s.error_count,
      last_error        |-> s.last_error,
      workflow_step     |-> s.workflow_step,
      messages          |-> LET kept == SubSeq(s.messages, 1,
                                              IF Len(s.messages) <= KeepMessages
                                              THEN Len(s.messages)
                                              ELSE KeepMessages) IN
                            [i \in 1..Len(kept) |-> MessageDict(kept[i])] ]

to_dict(s) ==
    [ current_workflow  |-> s.current_workflow,
      active_tasks      |-> s.active_tasks,
      pending_approvals |-> s.pending_approvals,
      context           |-> s.context,
      error_count       |-> s.error_count,
      last_error        |-> s.last_error,
      workflow_step     |-> s.workflow_step,
      messages          |-> LET kept == LastN(s.messages, KeepMessages) IN
                            [i \in 1..Len(kept) |-> MessageDict(kept[i])] ]

\* the loop of from_dict over messages_data, from index i on
RECURSIVE RebuildMessages(_, _)
RebuildMessages(messages_data, i) ==
    IF i > Len(messages_data) THEN <<>>
    ELSE LET msg_data == messages_data[i]
             rest     == RebuildMessages(messages_data, i + 1)
         IN  IF msg_data.type = "HumanMessage"
             THEN <<HumanMessage(msg_data.content)>> \o rest
             ELSE IF msg_data.type = "AIMessage"
                  THEN <<AIMessage(msg_data.content)>> \o rest
                  ELSE rest

from_dict(data) ==
    [ current_workflow  |-> data.current_workflow,
      active_tasks      |-> data.active_tasks,
      pending_approvals |-> data.pending_approvals,
      context           |-> data.context,
      messages          |-> RebuildMessages(data.messages, 1),
      error_count       |-> data.error_count,
      last_error        |-> data.last_error,
      workflow_step     |-> data.workflow_step ]

(***************************************************************************)
(* _analyze_request: first matching keyword family, in the code's order.   *)
(***************************************************************************)
EmailWords == {"email", "send", "update", "request"}
ResponseWords == {"response", "reply", "check", "monitor"}
TaskWords == {"task", "create", "add"}
ReportWords == {"status", "summary", "report"}
BoardWords == {"kanban", "board"}
GithubWords == {"github", "publish", "sync", "pages"}

\* the families with kanban/board tested ahead of status/summary/report
ClassifyBoardFirst(text) ==
    LET latest_message == Lower(text) IN
    IF AnyWordIn(latest_message, EmailWords) THEN "send_emails"
    ELSE IF AnyWordIn(latest_message, ResponseWords) THEN "check_responses"
    ELSE IF AnyWordIn(latest_message, TaskWords) THEN "create_task"
    ELSE IF AnyWordIn(latest_message, BoardWords) THEN "board_status"
    ELSE IF AnyWordIn(latest_message, ReportWords) THEN "generate_report"
    ELSE IF AnyWordIn(latest_message, GithubWords) THEN "publish_to_github"
    ELSE "general_query"

Classify(text) ==
    LET latest_message == Lower(text) IN
    IF AnyWordIn(latest_message, EmailWords) THEN "send_emails"
    ELSE IF AnyWordIn(latest_message, ResponseWords) THEN "check_responses"
    ELSE IF AnyWordIn(latest_message, TaskWords) THEN "create_task"
    ELSE IF AnyWordIn(latest_message, ReportWords) THEN "generate_report"
    ELSE IF AnyWordIn(latest_message, BoardWords) THEN "board_status"
    ELSE IF AnyWordIn(latest_message, GithubWords) THEN "publish_to_github"
    ELSE "general_query"

\* Classify over the submitted messages, computed once
ClassifyTable == [m \in AllMessages |-> Classify(m)]

ActionFor(text) ==
    IF text \in DOMAIN ClassifyTable THEN ClassifyTable[text] ELSE Classify(text)

analyze_request(s) ==
    LET s1 == [s EXCEPT !.workflow_step = "analyzing"] IN
    IF s1.messages = <<>>
    THEN [s1 EXCEPT !.context = Put(@, "action", "status_check")]
    ELSE [s1 EXCEPT !.context =
             Put(@, "action", ActionFor(s1.messages[Len(s1.messages)].content))]

(***************************************************************************)
(* The tool registry and the handlers behind it.  Every handler wraps its  *)
(* body in try/except Exception and returns the error as a string, so a    *)
(* handler has two outcomes and both are returned values.                  *)
(***************************************************************************)
ToolRegistry ==
    { "send_update_emails", "check_email_responses", "parse_email",
      "get_board_status", "create_task", "update_task", "find_tasks",
      "analyze_team", "generate_report", "publish_to_github",
      "check_github_status" }

CapabilitySentence ==
    "I understand your query. The LLM service is currently unavailable, but I can help with email management, kanban board updates, team status queries, and GitHub publishing."

HandlerOutcomes == {"ok", "tool_raised"}

\* _handle_general_query
handle_general_query(s, outcome, llm) ==
    IF s.messages = <<>>
    THEN "Hello! I'm your Assistant Manager. How can I help you today?"
    ELSE IF llm
         THEN IF outcome = "ok" THEN "LLM answer"
              ELSE "Error generating response: LLM generation failed"
         ELSE CapabilitySentence

\* the registry's handler for `action`, or the general-query fallback
RunHandler(action, s, outcome, llm) ==
    IF action \in ToolRegistry
    THEN CASE action = "create_task" ->
                "To create a task, please use the kanban board interface or provide specific task details."
           [] action = "generate_report" ->
                IF outcome = "ok"
                THEN "Status Report: Kanban Board Summary, Team Analysis"
                ELSE "Error generating report: tool failure"
           [] action = "publish_to_github" ->
                IF outcome = "ok"
                THEN "Successfully published kanban board"
                ELSE "Error publishing to GitHub: tool failure"
           [] OTHER -> "handler of a finer-grained registry key"
    ELSE handle_general_query(s, outcome, llm)

\* _execute_action up to the await of the handler
execute_action_begin(s) == [s EXCEPT !.workflow_step = "executing"]

\* _execute_action from the handler's return on
execute_action_end(s, action, outcome, llm) ==
    LET result == RunHandler(action, s, outcome, llm) IN
    reset_errors([s EXCEPT !.context =
                     Put(Put(@, "result", result), "success", TRUE)])

Truncate(text, n) == IF Len(text) <= n THEN text ELSE SubSeq(text, 1, n)

ResultKeep == 200

\* _handle_result
handle_result(s) ==
    LET s1      == [s EXCEPT !.workflow_step = "handling_result"]
        result  == Get(s1.context, "result", "No result")
        success == Get(s1.context, "success", FALSE)
    IN  IF success
        THEN [s1 EXCEPT
                !.messages = Append(@, AIMessage(result)),
                !.active_tasks = Append(@,
                    [ type   |-> "action_completed",
                      action |-> Get(s1.context, "action", None),
                      result |-> Truncate(result, ResultKeep) ])]
        ELSE [s1 EXCEPT
                !.messages = Append(@,
                    AIMessage("I encountered an issue: " \o result))]

\* _update_state, up to its call of _save_state
update_state(s) == [s EXCEPT !.workflow_step = "completed"]

(***************************************************************************)
(* The compiled graph: entry point and edges of _setup_workflow.           *)
(***************************************************************************)
EntryPoint == "analyze_request"

\* a graph built without the handle_result -> update_state edge
EdgeSkippingUpdate(node) ==
    CASE node = "analyze_request" -> "execute_action"
      [] node = "execute_action"  -> "handle_result"
      [] node = "handle_result"   -> "END"
      [] node = "update_state"    -> "END"

Edge(node) ==
    CASE node = "analyze_request" -> "execute_action"
      [] node = "execute_action"  -> "handle_result"
      [] node = "handle_result"   -> "update_state"
      [] node = "update_state"    -> "END"

Pipeline == <<"analyze_request", "execute_action", "handle_result", "update_state">>

(***************************************************************************)
(* _fallback_processing: the inline classification used without a graph.   *)
(***************************************************************************)
FallbackReportWords == {"status", "summary"}
FallbackEmailWords == {"email", "send"}
FallbackBoardWords == {"kanban", "board"}
FallbackGithubWords == {"github", "publish", "sync"}

FallbackSentence ==
    "I'm operating in fallback mode. I can help with status reports, sending emails, kanban board updates, and GitHub publishing."

FallbackHandler(message) ==
    LET message_lower == Lower(message) IN
    IF AnyWordIn(message_lower, FallbackReportWords) THEN "generate_report"
    ELSE IF AnyWordIn(message_lower, FallbackEmailWords) THEN "send_emails"
    ELSE IF AnyWordIn(message_lower, FallbackBoardWords) THEN "board_status"
    ELSE IF AnyWordIn(message_lower, FallbackGithubWords) THEN "publish_to_github"
    ELSE "none"

fallback_processing(message, outcome) ==
    LET h == FallbackHandler(message) IN
    CASE h = "generate_report" ->
            IF outcome = "ok"
            THEN "Status Report: Kanban Board Summary, Team Analysis"
            ELSE "Error generating report: tool failure"
      [] h = "send_emails" ->
            IF outcome = "ok"
            THEN "Sent update requests to team members"
            ELSE "Error sending emails: tool failure"
      [] h = "board_status" ->
            IF outcome = "ok"
            THEN "Kanban Board Summary"
            ELSE "Error getting board status: tool failure"
      [] h = "publish_to_github" ->
            IF outcome = "ok"
            THEN "Successfully published kanban board"
            ELSE "Error publishing to GitHub: tool failure"
      [] OTHER -> FallbackSentence

(***************************************************************************)
(* HTTP responses                                                          *)
(***************************************************************************)
NoResponse == [status |-> 0, detail |-> "", response |-> ""]

HTTPError(code, text) == [status |-> code, detail |-> text, response |-> ""]

Ok(body) == [status |-> 200, detail |-> "", response |-> body]

(***************************************************************************)
(* Initial state: the process before its lifespan start-up.                *)
(***************************************************************************)
InitAgent ==
    /\ registered = FALSE
    /\ is_active = FALSE
    /\ graph = FALSE
    /\ llm_available = FALSE
    /\ state = NewAgentState
    /\ pc = [p \in Procs |-> "idle"]
    /\ action_local = [p \in Procs |-> None]
    /\ msg = [p \in Procs |-> ""]
    /\ base = [p \in Procs |-> 0]
    /\ trace = [p \in Procs |-> <<>>]
    /\ ret = [p \in Procs |-> None]
    /\ resp = [p \in Procs |-> NoResponse]
    /\ arrival = [p \in Procs |-> [registered |-> FALSE, is_active |-> FALSE]]
    /\ called = [p \in Procs |-> FALSE]
    /\ persisted = <<>>
    /\ original = <<>>
    /\ ser_step = "fresh"

\* _save_state: the one row with key "main_agent_state" is replaced
save_state(s) == <<to_dict(s)>>

\* _load_state: the saved state replaces the fresh one when a row exists
load_state(s, row) == IF row = <<>> THEN s ELSE from_dict(row[1])

\* lifespan start-up: AssistantAgent.initialize, then set_assistant_agent.
\* The language-model start, each tool group, the graph build and the state
\* load all catch their own failures, so is_active becomes true; what a
\* failure leaves behind is an unavailable model (llm) or no graph (g).
Startup(g, llm) ==
    /\ ~registered
    /\ registered' = TRUE
    /\ is_active' = TRUE
    /\ graph' = g
    /\ llm_available' = llm
    /\ state' = load_state(state, persisted)
    /\ ser_step' = IF persisted = <<>> THEN ser_step ELSE "loaded"
    /\ UNCHANGED <<pc, action_local, msg, base, trace, ret, resp,
                   arrival, called, persisted, original, dbVars, svcVars>>

\* lifespan shutdown, AssistantAgent.cleanup: the state is saved, the
\* language-model service closed, and the agent marked inactive unless the
\* cleanup of the email tools raised before that line
Shutdown(tools_ok) ==
    /\ registered
    /\ is_active
    /\ persisted' = save_state(state)
    /\ original' = <<state>>
    /\ ser_step' = "saved"
    /\ llm_available' = FALSE
    /\ is_active' = ~tools_ok
    /\ UNCHANGED <<registered, graph, state, pc, action_local, msg, base,
                   trace, ret, resp, arrival, called, dbVars, svcVars>>

Running(p) == pc[p] \notin {"idle", "rejected", "returned", "cancelled"}

\* invocations are numbered in the order they arrive
NextToArrive(p) ==
    /\ pc[p] = "idle"
    /\ \A q \in Procs : q < p => pc[q] # "idle"

Seen == [registered |-> registered, is_active |-> is_active]

\* process_message up to the await of graph.ainvoke / _fallback_processing
process_message_begin(p, message) ==
    /\ state' = [state EXCEPT !.messages = Append(@, HumanMessage(message))]
    /\ base' = [base EXCEPT ![p] = Len(state.messages)]
    /\ msg' = [msg EXCEPT ![p] = message]
    /\ pc' = [pc EXCEPT ![p] = IF graph THEN EntryPoint ELSE "fallback"]
    /\ called' = [called EXCEPT ![p] = TRUE]

\* a gate that forgets the is_active test
query_agent_gate_no_active_test(reg, active) ==
    IF ~reg THEN "unavailable" ELSE "process"

\* what query_agent does on arrival: "unavailable", "inactive" or "process"
query_agent_gate(reg, active) ==
    IF ~reg THEN "unavailable"
    ELSE IF ~active THEN "inactive"
    ELSE "process"

\* POST /api/agents/query, no agent registered
QueryNoAgent(p) ==
    /\ NextToArrive(p)
    /\ query_agent_gate(registered, is_active) = "unavailable"
    /\ resp' = [resp EXCEPT ![p] = HTTPError(503, "Agent not available")]
    /\ pc' = [pc EXCEPT ![p] = "rejected"]
    /\ arrival' = [arrival EXCEPT ![p] = Seen]
    /\ UNCHANGED <<serVars, dbVars, svcVars, lifeVars, state, action_local, msg, base,
                   trace, ret, called>>

\* POST /api/agents/query, agent registered but not active
QueryInactive(p) ==
    /\ NextToArrive(p)
    /\ query_agent_gate(registered, is_active) = "inactive"
    /\ resp' = [resp EXCEPT ![p] = HTTPError(503, "Agent is not active")]
    /\ pc' = [pc EXCEPT ![p] = "rejected"]
    /\ arrival' = [arrival EXCEPT ![p] = Seen]
    /\ UNCHANGED <<serVars, dbVars, svcVars, lifeVars, state, action_local, msg, base,
                   trace, ret, called>>

\* POST /api/agents/query, agent registered and active: process_message is
\* awaited under the 60 s timeout
QueryAccepted(p, message) ==
    /\ NextToArrive(p)
    /\ query_agent_gate(registered, is_active) = "process"
    /\ process_message_begin(p, message)
    /\ arrival' = [arrival EXCEPT ![p] = Seen]
    /\ UNCHANGED <<serVars, dbVars, svcVars, lifeVars, action_local, trace, ret, resp>>

\* one invocation at a time: what the sequential claims assume
NoneRunning == \A q \in Procs : ~Running(q)

AnalyzeRequest(p) ==
    /\ pc[p] = "analyze_request"
    /\ state' = analyze_request(state)
    /\ trace' = [trace EXCEPT ![p] = Append(@, "analyze_request")]
    /\ pc' = [pc EXCEPT ![p] = Edge("analyze_request")]
    /\ UNCHANGED <<serVars, dbVars, svcVars, lifeVars, action_local, msg, base, ret,
                   resp, arrival, called>>

ExecuteBegin(p) ==
    /\ pc[p] = "execute_action"
    /\ state' = execute_action_begin(state)
    /\ action_local' = [action_local EXCEPT
                           ![p] = Get(state.context, "action", "status_check")]
    /\ trace' = [trace EXCEPT ![p] = Append(@, "execute_action")]
    /\ pc' = [pc EXCEPT ![p] = "in_handler"]
    /\ UNCHANGED <<serVars, dbVars, svcVars, lifeVars, msg, base, ret, resp, arrival, called>>

ExecuteEnd(p, outcome) ==
    /\ pc[p] = "in_handler"
    /\ state' = execute_action_end(state, action_local[p], outcome, llm_available)
    /\ pc' = [pc EXCEPT ![p] = Edge("execute_action")]
    /\ UNCHANGED <<serVars, dbVars, svcVars, lifeVars, action_local, msg, base, trace, ret, resp,
                   arrival, called>>

HandleResult(p) ==
    /\ pc[p] = "handle_result"
    /\ state' = handle_result(state)
    /\ trace' = [trace EXCEPT ![p] = Append(@, "handle_result")]
    /\ pc' = [pc EXCEPT ![p] = Edge("handle_result")]
    /\ UNCHANGED <<serVars, dbVars, svcVars, lifeVars, action_local, msg, base, ret,
                   resp, arrival, called>>

\* _update_state ends with _save_state
UpdateState(p) ==
    /\ pc[p] = "update_state"
    /\ state' = update_state(state)
    /\ persisted' = save_state(update_state(state))
    /\ original' = <<update_state(state)>>
    /\ ser_step' = "saved"
    /\ trace' = [trace EXCEPT ![p] = Append(@, "update_state")]
    /\ pc' = [pc EXCEPT ![p] = Edge("update_state")]
    /\ UNCHANGED <<dbVars, svcVars, lifeVars, action_local, msg, base, ret, resp,
                   arrival, called>>

\* a return that reads the conversation's first message instead of its last
GraphResultFirstMessage(s) ==
    IF s.messages # <<>> /\ s.messages[1].kind = "AIMessage"
    THEN s.messages[1].content
    ELSE IF Len(s.messages) > 1 THEN s.messages[2].content
    ELSE "Workflow completed successfully"

\* what process_message returns once graph.ainvoke has returned
GraphResult(s) ==
    IF s.messages # <<>> /\ s.messages[Len(s.messages)].kind = "AIMessage"
    THEN s.messages[Len(s.messages)].content
    ELSE "Workflow completed successfully"

\* query_agent's answer once process_message has returned
query_response(text) == Ok(text)

\* graph.ainvoke returned: process_message returns, query_agent answers
GraphReturn(p) ==
    /\ pc[p] = "END"
    /\ ret' = [ret EXCEPT ![p] = GraphResult(state)]
    /\ resp' = [resp EXCEPT ![p] = query_response(GraphResult(state))]
    /\ pc' = [pc EXCEPT ![p] = "returned"]
    /\ UNCHANGED <<serVars, dbVars, svcVars, lifeVars, state, action_local, msg, base, trace,
                   arrival, called>>

\* no graph: _fallback_processing answers, query_agent returns it
FallbackReturn(p, outcome) ==
    /\ pc[p] = "fallback"
    /\ ret' = [ret EXCEPT ![p] = fallback_processing(msg[p], outcome)]
    /\ resp' = [resp EXCEPT
                   ![p] = query_response(fallback_processing(msg[p], outcome))]
    /\ pc' = [pc EXCEPT ![p] = "returned"]
    /\ UNCHANGED <<serVars, dbVars, svcVars, lifeVars, state, action_local, msg, base, trace,
                   arrival, called>>

\* query_agent's asyncio.wait_for gives up while the invocation is suspended
\* in a handler: the invocation is cancelled where it stands
QueryTimeout(p) ==
    /\ pc[p] \in {"in_handler", "fallback"}
    /\ resp' = [resp EXCEPT ![p] = HTTPError(408, "Query processing timed out")]
    /\ pc' = [pc EXCEPT ![p] = "cancelled"]
    /\ UNCHANGED <<serVars, dbVars, svcVars, lifeVars, state, action_local, msg, base, trace, ret,
                   arrival, called>>

\* the stages of one invocation's pipeline run
PipelineStep(p) ==
    \/ AnalyzeRequest(p)
    \/ ExecuteBegin(p)
    \/ \E o \in HandlerOutcomes : ExecuteEnd(p, o)
    \/ HandleResult(p)
    \/ UpdateState(p)
    \/ GraphReturn(p)

AgentStep ==
    \/ \E g, llm \in BOOLEAN : Startup(g, llm)
    \/ \E tools_ok \in BOOLEAN : Shutdown(tools_ok)
    \/ \E p \in Procs : QueryNoAgent(p)
    \/ \E p \in Procs : QueryInactive(p)
    \/ \E p \in Procs, m \in Messages : NoneRunning /\ QueryAccepted(p, m)
    \/ \E p \in Procs : PipelineStep(p)
    \/ \E p \in Procs, o \in HandlerOutcomes : FallbackReturn(p, o)
    \/ \E p \in Procs : QueryTimeout(p)

(***************************************************************************)
(* The tables.  A table is a function from primary keys to rows; a new row *)
(* takes the key after the largest one in use.                             *)
(***************************************************************************)
UnknownEmail == "x@example.com"

EmptyDB ==
    [TeamMember |-> <<>>, Task |-> <<>>, KanbanChange |-> <<>>,
     EmailThread |-> <<>>, AgentActivity |-> <<>>]

Largest(S) == CHOOSE x \in S : \A y \in S : y <= x

NextId(table) == IF DOMAIN table = {} THEN 1 ELSE Largest(DOMAIN table) + 1

\* Model.create(...)
Insert(table, row) == table @@ (NextId(table) :> row)

\* TeamMember.get_or_none(TeamMember.email == email): its key, 0 for no row
MemberByEmail(d, email) ==
    IF \E i \in DOMAIN d.TeamMember : d.TeamMember[i].email = email
    THEN CHOOSE i \in DOMAIN d.TeamMember : d.TeamMember[i].email = email
    ELSE 0

\* datetime.now() as stored in a row
Now == "datetime.now()"

\* a KanbanChange row as KanbanChange.create(..., approved=False) writes it
ChangeRow(change_type, task_id, task_data) ==
    [ change_type |-> change_type,
      task_id     |-> task_id,
      task_data   |-> task_data,
      approved    |-> FALSE,
      approved_at |-> None ]

(***************************************************************************)
(* What a route's try-body does: it returns a value or raises an           *)
(* HTTPException; the except clauses of the route then decide the answer.  *)
(***************************************************************************)
Returned(d, body) == [db |-> d, raised |-> FALSE, out |-> Ok(body)]

Raised(d, code, text) == [db |-> d, raised |-> TRUE, out |-> HTTPError(code, text)]

\* str(e) of an HTTPException
StrOf(e) == ToString(e.status) \o ": " \o e.detail

\* a route whose only clause is
\*   except Exception as e: raise HTTPException(status_code=500, detail=str(e))
ExceptException(r) ==
    IF r.raised THEN [r EXCEPT !.out = HTTPError(500, StrOf(r.out))] ELSE r

\* a route with `except HTTPException: raise` in front of that clause
ExceptHTTPExceptionRaise(r) == r

(***************************************************************************)
(* POST /api/kanban/tasks                                                  *)
(***************************************************************************)
\* TaskCreate(**body): a body without "order" gets the schema's default
default_order == 0

TaskCreate(body) ==
    IF "order" \in DOMAIN body THEN body
    ELSE body @@ [order |-> default_order]

create_task(d, task) ==
    ExceptException(
        IF task.assignee_id \notin DOMAIN d.TeamMember
        THEN Raised(d, 404, "Assignee not found")
        ELSE LET assignee == d.TeamMember[task.assignee_id]
                 id       == NextId(d.Task)
                 max_order == Cardinality({ i \in DOMAIN d.Task :
                                               d.Task[i].status = task.status })
                 new_task == [ title    |-> task.title,
                               status   |-> task.status,
                               assignee |-> task.assignee_id,
                               priority |-> task.priority,
                               order    |-> IF task.order \in Int
                                            THEN task.order ELSE max_order,
                               tags     |-> task.tags ]
                 d1 == [d EXCEPT !.Task = Insert(@, new_task)]
                 d2 == [d1 EXCEPT !.KanbanChange = Insert(@,
                          ChangeRow("create", id,
                              [ title    |-> task.title,
                                assignee |-> assignee.email,
                                status   |-> task.status,
                                priority |-> task.priority ]))]
             IN  Returned(d2, [id |-> id, task |-> new_task]))

(***************************************************************************)
(* PUT /api/kanban/tasks/{task_id}.  The body is the dict of the fields    *)
(* the request set (exclude_unset).                                        *)
(***************************************************************************)
\* the fields left for the generic loop, in the schema's order
OtherFields == <<"title", "status", "priority">>

ChangeText(field, old, new) == field \o ": " \o old \o " -> " \o new

\* the generic loop over update_data.items(), from field number i on;
\* acc is [task, changes]
RECURSIVE TrackOtherFields(_, _, _)
TrackOtherFields(acc, update_data, i) ==
    IF i > Len(OtherFields) THEN acc
    ELSE LET field == OtherFields[i] IN
         IF field \in DOMAIN update_data /\ acc.task[field] # update_data[field]
         THEN TrackOtherFields(
                  [ task    |-> [acc.task EXCEPT ![field] = update_data[field]],
                    changes |-> Append(acc.changes,
                                   ChangeText(field, acc.task[field],
                                              update_data[field])) ],
                  update_data, i + 1)
         ELSE TrackOtherFields(acc, update_data, i + 1)

\* an update that writes the change record whether or not anything changed
update_task_always_recording(d, task_id, update_data) ==
    ExceptHTTPExceptionRaise(
        IF task_id \notin DOMAIN d.Task
        THEN Raised(d, 404, "Task not found")
        ELSE Returned(
                 [d EXCEPT !.KanbanChange = Insert(@,
                     ChangeRow("update", task_id,
                         [changes |-> <<>>, title |-> d.Task[task_id].title]))],
                 [id |-> task_id, task |-> d.Task[task_id]]))

update_task(d, task_id, update_data) ==
    ExceptHTTPExceptionRaise(
        IF task_id \notin DOMAIN d.Task
        THEN Raised(d, 404, "Task not found")
        ELSE
        LET task == d.Task[task_id]
            has_assignee == "assignee_id" \in DOMAIN update_data
            has_tags     == "tags" \in DOMAIN update_data
        IN
        IF has_assignee /\ update_data.assignee_id \notin DOMAIN d.TeamMember
        THEN Raised(d, 404, "Assignee not found")
        ELSE
        LET task1 == IF has_assignee
                     THEN [task EXCEPT !.assignee = update_data.assignee_id]
                     ELSE task
            changes1 == IF has_assignee
                        THEN <<ChangeText("assignee",
                                  d.TeamMember[task.assignee].email,
                                  d.TeamMember[update_data.assignee_id].email)>>
                        ELSE <<>>
            task2 == IF has_tags
                     THEN [task1 EXCEPT !.tags = update_data.tags]
                     ELSE task1
            changes2 == IF has_tags
                        THEN Append(changes1, "tags updated")
                        ELSE changes1
            acc == TrackOtherFields([task |-> task2, changes |-> changes2],
                                    update_data, 1)
            d1 == [d EXCEPT !.Task[task_id] = acc.task]
            d2 == IF acc.changes # <<>>
                  THEN [d1 EXCEPT !.KanbanChange = Insert(@,
                           ChangeRow("update", task_id,
                               [ changes |-> acc.changes,
                                 title   |-> acc.task.title ]))]
                  ELSE d1
        IN  Returned(d2, [id |-> task_id, task |-> acc.task]))

(***************************************************************************)
(* DELETE /api/kanban/tasks/{task_id}                                      *)
(***************************************************************************)
\* a delete that removes the row at once
delete_task_removing_row(d, task_id) ==
    ExceptException(
        IF task_id \notin DOMAIN d.Task
        THEN Raised(d, 404, "Task not found")
        ELSE Returned(
                 [d EXCEPT !.Task =
                     [i \in DOMAIN d.Task \ {task_id} |-> d.Task[i]]],
                 [success |-> TRUE,
                  message |-> "Task deletion queued for approval"]))

delete_task(d, task_id) ==
    ExceptException(
        IF task_id \notin DOMAIN d.Task
        THEN Raised(d, 404, "Task not found")
        ELSE LET task == d.Task[task_id] IN
             Returned(
                 [d EXCEPT !.KanbanChange = Insert(@,
                     ChangeRow("delete", task_id,
                         [ title    |-> task.title,
                           assignee |-> d.TeamMember[task.assignee].email ]))],
                 [success |-> TRUE,
                  message |-> "Task deletion queued for approval"]))

(***************************************************************************)
(* GET /api/agents/status                                                  *)
(***************************************************************************)
get_agent_status(d, reg, active, s) ==
    ExceptException(
        IF ~reg
        THEN Raised(d, 503, "Agent not available")
        ELSE Returned(d, [ is_active       |-> active,
                           current_task    |-> s.workflow_step,
                           tasks_completed |-> Len(s.active_tasks) ]))

(***************************************************************************)
(* POST /api/emails/team-members                                           *)
(***************************************************************************)
add_team_member(d, member_data) ==
    ExceptException(
        LET existing_member == MemberByEmail(d, member_data.email) IN
        IF existing_member # 0
        THEN IF d.TeamMember[existing_member].active
             THEN Raised(d, 400, "Team member already exists and is active")
             ELSE LET d1 == [d EXCEPT
                                !.TeamMember[existing_member].active = TRUE,
                                !.TeamMember[existing_member].name =
                                    member_data.name,
                                !.TeamMember[existing_member].role =
                                    member_data.role]
                  IN  Returned(d1, [id     |-> existing_member,
                                    member |-> d1.TeamMember[existing_member]])
        ELSE LET new_member == [ email         |-> member_data.email,
                                 name          |-> member_data.name,
                                 role          |-> member_data.role,
                                 active        |-> member_data.active,
                                 response_rate |-> 0 ]
             IN  Returned([d EXCEPT !.TeamMember = Insert(@, new_member)],
                          [id     |-> NextId(d.TeamMember),
                           member |-> new_member]))

(***************************************************************************)
(* The create-task tool, CreateTaskTool._run: it answers with a string.    *)
(***************************************************************************)
valid_statuses == {"todo", "in_progress", "review", "done", "blocked"}

valid_priorities == {"low", "medium", "high", "urgent"}

\* a tool that logs the change before it looks the assignee up
CreateTaskTool_run_logging_first(d, title, assignee_email, status, priority) ==
    [ db  |-> [d EXCEPT !.KanbanChange = Insert(@,
                  ChangeRow("create", NextId(d.Task),
                      [ title    |-> title,
                        assignee |-> assignee_email,
                        status   |-> status,
                        priority |-> priority ]))],
      out |-> "Error: Team member not found with email: " \o assignee_email ]

CreateTaskTool_run(d, title, assignee_email, status, priority) ==
    LET assignee == MemberByEmail(d, assignee_email) IN
    IF assignee = 0
    THEN [ db  |-> d,
           out |-> "Error: Team member not found with email: "
                       \o assignee_email ]
    ELSE LET status1   == IF status \in valid_statuses THEN status ELSE "todo"
             priority1 == IF priority \in valid_priorities
                          THEN priority ELSE "medium"
             max_order == Cardinality({ i \in DOMAIN d.Task :
                                           d.Task[i].status = status1 })
             id        == NextId(d.Task)
             task      == [ title    |-> title,
                            status   |-> status1,
                            assignee |-> assignee,
                            priority |-> priority1,
                            order    |-> max_order,
                            tags     |-> <<>> ]
             d1 == [d EXCEPT !.Task = Insert(@, task)]
             d2 == [d1 EXCEPT !.KanbanChange = Insert(@,
                      ChangeRow("create", id,
                          [ title    |-> title,
                            assignee |-> assignee_email,
                            status   |-> status1,
                            priority |-> priority1 ]))]
         IN  [ db  |-> d2,
               out |-> "Created task '" \o title \o "' assigned to "
                           \o d.TeamMember[assignee].name \o " ("
                           \o assignee_email \o ") with status '"
                           \o status1 \o "'" ]

(***************************************************************************)
(* KanbanTools.approve_changes and POST /api/agents/approve-changes        *)
(***************************************************************************)
\* the loop over change_ids, from position i on
RECURSIVE ApproveLoop(_, _, _, _)
ApproveLoop(changes, change_ids, i, approved_count) ==
    IF i > Len(change_ids)
    THEN [changes |-> changes, approved_count |-> approved_count]
    ELSE LET change_id == change_ids[i] IN
         IF change_id \in DOMAIN changes /\ ~changes[change_id].approved
         THEN ApproveLoop([changes EXCEPT ![change_id].approved = TRUE,
                                          ![change_id].approved_at = Now],
                          change_ids, i + 1, approved_count + 1)
         ELSE ApproveLoop(changes, change_ids, i + 1, approved_count)

ApprovedText(n) == "Approved " \o ToString(n) \o " kanban changes"

approve_changes(d, change_ids) ==
    LET r == ApproveLoop(d.KanbanChange, change_ids, 1, 0) IN
    [ db  |-> [d EXCEPT !.KanbanChange = r.changes],
      out |-> ApprovedText(r.approved_count) ]

BatchLimit == 50

approve_changes_route(d, reg, change_ids) ==
    ExceptHTTPExceptionRaise(
        IF ~reg THEN Raised(d, 503, "Agent not available")
        ELSE IF change_ids = <<>>
        THEN Raised(d, 400, "No change IDs provided")
        ELSE IF Len(change_ids) > BatchLimit
        THEN Raised(d, 400, "Too many changes to approve at once")
        ELSE LET result == approve_changes(d, change_ids) IN
             Returned(result.db,
                      [ success |-> TRUE,
                        message |-> result.out,
                        data    |-> [ approved_changes |-> change_ids,
                                      count |-> Len(change_ids) ] ]))

(***************************************************************************)
(* Requests on the tables.  Each is served in one step; `before` and `req` *)
(* keep what the request found and what it asked.                          *)
(***************************************************************************)
InitDB ==
    /\ db = EmptyDB
    /\ before = EmptyDB
    /\ req = [op |-> "none"]
    /\ out = NoResponse

\* the tables stay within the model's bounds
WithinBounds(d) ==
    /\ Cardinality(DOMAIN d.Task) <= MaxTasks
    /\ Cardinality(DOMAIN d.KanbanChange) <= MaxChanges
    /\ Cardinality(DOMAIN d.EmailThread) <= MaxThreads
    /\ \A m \in DOMAIN d.TeamMember : m <= MaxMemberId

Serve(request, result) ==
    /\ WithinBounds(result.db)
    /\ before' = db
    /\ req' = request
    /\ db' = result.db
    /\ out' = result.out
    /\ UNCHANGED <<agentVars, serVars, svcVars>>

\* Ann is added active; Bob is added inactive, and added again he is
\* reactivated
MemberBodies ==
    { [email |-> "a@example.com", name |-> "Ann", role |-> "dev",
       active |-> TRUE],
      [email |-> "b@example.com", name |-> "Bob", role |-> "dev",
       active |-> FALSE] }

TaskBodies ==
    { [ title |-> "Task", status |-> "todo", assignee_id |-> a,
        priority |-> "medium", order |-> 0, tags |-> <<>> ] :
        a \in {1, 3} }

UpdateBodies ==
    { <<>>,
      [status |-> "done"],
      [status |-> "todo"],
      [tags |-> <<>>],
      [assignee_id |-> 2, status |-> "done"] }

TaskIds == 1..(MaxTasks + 1)

\* batches with an id alone, repeated, and beside another
Batches ==
    { <<>>, <<1>>, <<2>>, <<3>>, <<1, 1>>, <<1, 2>>, <<2, 1>>, <<2, 3>> }

AddTeamMember(member_data) ==
    Serve([op |-> "add_team_member", member_data |-> member_data],
          add_team_member(db, member_data))

CreateTask(task) ==
    Serve([op |-> "create_task", task |-> task], create_task(db, task))

UpdateTask(task_id, update_data) ==
    Serve([op |-> "update_task", task_id |-> task_id,
           update_data |-> update_data],
          update_task(db, task_id, update_data))

DeleteTask(task_id) ==
    Serve([op |-> "delete_task", task_id |-> task_id],
          delete_task(db, task_id))

GetAgentStatus ==
    Serve([op |-> "get_agent_status", registered |-> registered],
          get_agent_status(db, registered, is_active, state))

CreateTaskTool(assignee_email, status) ==
    Serve([op |-> "create_task_tool", assignee_email |-> assignee_email,
           status |-> status],
          CreateTaskTool_run(db, "Task", assignee_email, status, "medium"))

ApproveChanges(change_ids) ==
    Serve([op |-> "approve_changes", registered |-> registered,
           change_ids |-> change_ids],
          approve_changes_route(db, registered, change_ids))

KanbanStep ==
    \/ \E m \in MemberBodies : AddTeamMember(m)
    \/ \E t \in TaskBodies : CreateTask(t)
    \/ \E id \in TaskIds, u \in UpdateBodies : UpdateTask(id, u)
    \/ \E id \in TaskIds : DeleteTask(id)
    \/ GetAgentStatus
    \/ \E e \in {"a@example.com", UnknownEmail} : CreateTaskTool(e, "someday")
    \/ \E b \in Batches : ApproveChanges(b)

(***************************************************************************)
(* PUT and DELETE /api/emails/team-members/{member_id}, and the update-    *)
(* request tool, which writes the EmailThread rows.                        *)
(***************************************************************************)
allowed_fields == {"name", "role", "active"}

\* the value a field has after the loop over updates.items()
Updated(updates, field, old) ==
    IF field \in DOMAIN updates /\ field \in allowed_fields
    THEN updates[field] ELSE old

update_team_member(d, member_id, updates) ==
    ExceptException(
        IF member_id \notin DOMAIN d.TeamMember
        THEN Raised(d, 404, "Team member not found")
        ELSE LET member == d.TeamMember[member_id]
                 saved == [member EXCEPT
                             !.name = Updated(updates, "name", @),
                             !.role = Updated(updates, "role", @),
                             !.active = Updated(updates, "active", @)]
             IN  Returned([d EXCEPT !.TeamMember[member_id] = saved],
                          [message |-> "Team member updated successfully",
                           id |-> member_id, member |-> saved]))

\* a table without the rows whose key is in ids
Without(table, ids) == [i \in DOMAIN table \ ids |-> table[i]]

\* a permanent delete that takes the member row alone
delete_instance_not_recursive(d, member_id) ==
    [d EXCEPT !.TeamMember = Without(@, {member_id})]

\* member.delete_instance(recursive=True): the rows that refer to the
\* member through a non-null foreign key go with it (tasks, threads),
\* nullable references (activities) are set to NULL
delete_instance(d, member_id) ==
    LET tasks == {t \in DOMAIN d.Task : d.Task[t].assignee = member_id}
        threads == {t \in DOMAIN d.EmailThread :
                       d.EmailThread[t].team_member = member_id}
    IN  [d EXCEPT
           !.AgentActivity =
               [a \in DOMAIN @ |->
                   [@[a] EXCEPT
                      !.team_member = IF @ = member_id THEN 0 ELSE @,
                      !.task = IF @ \in tasks THEN 0 ELSE @]],
           !.Task = Without(@, tasks),
           !.EmailThread = Without(@, threads),
           !.TeamMember = Without(@, {member_id})]

remove_team_member(d, member_id, permanent) ==
    ExceptException(
        IF member_id \notin DOMAIN d.TeamMember
        THEN Raised(d, 404, "Team member not found")
        ELSE IF permanent
        THEN Returned(delete_instance(d, member_id),
                      [message |-> "Team member permanently deleted"])
        ELSE Returned([d EXCEPT !.TeamMember[member_id].active = FALSE],
                      [message |-> "Team member deactivated"]))

\* SendUpdateRequestTool._run for one address, the template at hand: a
\* thread row is written when the member exists and the mail went out
send_team_update_request(d, member_email, sent_ok) ==
    LET member == MemberByEmail(d, member_email) IN
    IF member = 0
    THEN [db |-> d,
          out |-> "Successfully sent update requests to 0 team members"
                    \o ". Errors: Team member not found: " \o member_email]
    ELSE IF sent_ok
    THEN [db |-> [d EXCEPT !.EmailThread =
                     Insert(@, [team_member |-> member, status |-> "sent",
                                response_received |-> FALSE,
                                response_at |-> None,
                                follow_up_count |-> 0])],
          out |-> "Successfully sent update requests to 1 team members"]
    ELSE [db |-> d,
          out |-> "Successfully sent update requests to 0 team members"
                    \o ". Errors: Failed to send to " \o member_email
                    \o ": Unknown error"]

MemberUpdates ==
    { [active |-> TRUE], [email |-> "b@example.com", active |-> FALSE] }

MemberIds == 1..MaxMemberId

UpdateTeamMember(member_id, updates) ==
    Serve([op |-> "update_team_member", member_id |-> member_id,
           updates |-> updates],
          update_team_member(db, member_id, updates))

RemoveTeamMember(member_id, permanent) ==
    Serve([op |-> "remove_team_member", member_id |-> member_id,
           permanent |-> permanent],
          remove_team_member(db, member_id, permanent))

SendUpdateRequest(member_email, sent_ok) ==
    Serve([op |-> "send_team_update_request", email |-> member_email],
          send_team_update_request(db, member_email, sent_ok))

TeamStep ==
    \/ \E m \in MemberBodies : AddTeamMember(m)
    \/ \E id \in MemberIds, u \in MemberUpdates : UpdateTeamMember(id, u)
    \/ \E id \in MemberIds, permanent \in BOOLEAN :
          RemoveTeamMember(id, permanent)
    \/ \E t \in TaskBodies : CreateTask(t)
    \/ \E sent_ok \in BOOLEAN : SendUpdateRequest("a@example.com", sent_ok)

(***************************************************************************)
(* LLMService.generate_simple_response.  `llm_call` holds one call: where  *)
(* it stands, the attempt number, the answers its requests got, and what   *)
(* it returned.  The prompt only shapes the payload and is left out.       *)
(***************************************************************************)
max_retries == 3

NotAvailableText ==
    "LLM service is not available. Please check Ollama connection."

\* what a POST /api/generate can come to
Answers ==
    { [kind |-> "answer", status |-> 200, text |-> "Here is the summary."],
      [kind |-> "answer", status |-> 200, text |-> ""],
      [kind |-> "answer", status |-> 500, text |-> "model overloaded"],
      [kind |-> "error", status |-> 0, text |-> "Cannot connect to host"] }

\* status 200 only: an empty output passes
AnswerAcceptedIfOk(answer) == answer.kind = "answer" /\ answer.status = 200

\* response.status == 200 and response_text is not empty
AnswerAccepted(answer) ==
    answer.kind = "answer" /\ answer.status = 200 /\ answer.text # ""

\* str(e) of the exception an attempt ends with
FailureReason(answer) ==
    IF answer.kind = "error" THEN answer.text
    ELSE IF answer.status = 200 THEN "Empty response from LLM"
    ELSE "LLM generation failed: " \o answer.text

InitLLM ==
    llm_call = [pc |-> "idle", available |-> FALSE, attempt |-> 0,
           requests |-> <<>>, ret |-> None]

\* the call up to its first request
LLMCall ==
    /\ llm_call.pc = "idle"
    /\ llm_call' =
          IF ~llm_available
          THEN [llm_call EXCEPT !.pc = "returned", !.ret = NotAvailableText]
          ELSE [llm_call EXCEPT !.pc = "attempt", !.available = TRUE]
    /\ UNCHANGED <<agentVars, serVars, dbVars, sched, pub, wf, ws, boot>>

\* one pass of the retry loop: the request, and what follows its answer
LLMAttempt(answer) ==
    /\ llm_call.pc = "attempt"
    /\ llm_call.attempt < max_retries
    /\ llm_call' =
          LET sent == [llm_call EXCEPT !.requests = Append(@, answer)] IN
          IF AnswerAccepted(answer)
          THEN [sent EXCEPT !.pc = "returned", !.ret = answer.text]
          ELSE IF llm_call.attempt = max_retries - 1
          THEN [sent EXCEPT !.pc = "returned",
                            !.ret = "Error generating response: "
                                        \o FailureReason(answer)]
          ELSE [sent EXCEPT !.attempt = @ + 1]
    /\ UNCHANGED <<agentVars, serVars, dbVars, sched, pub, wf, ws, boot>>

LLMStep ==
    \/ LLMCall
    \/ \E a \in Answers : LLMAttempt(a)

(***************************************************************************)
(* SchedulerService.  `sched` holds is_running, the loop task, the jobs    *)
(* registered with the schedule library, the process_message tasks the     *)
(* triggers created, what the last check of the loop did, and whether stop *)
(* has returned.                                                           *)
(***************************************************************************)
WeeklyInstruction == "Please send weekly update requests to all team members"
DeadlineInstruction == "Check for overdue tasks and send reminders"
MaintenanceInstruction == "Update and synchronize the kanban board"

\* the three cadences, in the order start registers them
Cadences == <<"weekly_updates", "deadline_check", "kanban_maintenance">>

JobMessage(job) ==
    IF job = "weekly_updates" THEN WeeklyInstruction
    ELSE IF job = "deadline_check" THEN DeadlineInstruction
    ELSE MaintenanceInstruction

InitSched ==
    sched = [is_running |-> FALSE, scheduler_task |-> "None", jobs |-> <<>>,
             spawned |-> <<>>,
             last |-> [ran |-> <<>>, raised |-> FALSE, active |-> FALSE],
             started |-> FALSE, stop_returned |-> FALSE]

\* a trigger that creates its task whatever the agent reports
trigger_unguarded(active, job) == <<JobMessage(job)>>

\* _trigger_*: the process_message tasks one job creates
trigger(active, job) == IF active THEN <<JobMessage(job)>> ELSE <<>>

\* schedule.run_pending over the jobs that got to run, in their order
RECURSIVE run_jobs(_, _)
run_jobs(active, ran) ==
    IF ran = <<>> THEN <<>>
    ELSE trigger(active, Head(ran)) \o run_jobs(active, Tail(ran))

Range(seq) == {seq[i] : i \in DOMAIN seq}

\* the jobs a check can find due, in the order of their next run
DueOrders(jobs) ==
    {d \in UNION {[1..n -> Range(jobs)] : n \in 0..Len(jobs)} :
        \A i, j \in DOMAIN d : i # j => d[i] # d[j]}

\* lifespan start-up after the agent: SchedulerService.start
SchedStart ==
    /\ registered
    /\ ~sched.started
    /\ sched' = [sched EXCEPT !.is_running = TRUE, !.jobs = @ \o Cadences,
                              !.scheduler_task = "sleeping",
                              !.started = TRUE]
    /\ UNCHANGED <<agentVars, serVars, dbVars, llm_call, pub, wf, ws, boot>>

\* one pass of _scheduler_loop, from the test of is_running to the sleep:
\* the first `done` of the due jobs run; with done < Len(due) the next one
\* raised, the error is logged and the loop sleeps all the same
SchedCheck(due, done) ==
    /\ sched.scheduler_task = "sleeping"
    /\ Len(sched.spawned) + done <= MaxSpawned
    /\ sched' =
          IF ~sched.is_running
          THEN [sched EXCEPT !.scheduler_task = "finished"]
          ELSE [sched EXCEPT
                  !.spawned = @ \o run_jobs(is_active, SubSeq(due, 1, done)),
                  !.last = [ran |-> SubSeq(due, 1, done),
                            raised |-> done < Len(due),
                            active |-> is_active]]
    /\ UNCHANGED <<agentVars, serVars, dbVars, llm_call, pub, wf, ws, boot>>

\* lifespan shutdown: SchedulerService.stop.  The loop task is at its sleep
\* (or not started yet), so the cancellation ends it without another check.
SchedStop ==
    /\ sched.started
    /\ ~sched.stop_returned
    /\ sched' = [sched EXCEPT
                   !.is_running = FALSE,
                   !.scheduler_task =
                       IF @ = "sleeping" THEN "cancelled" ELSE @,
                   !.jobs = <<>>,
                   !.stop_returned = TRUE]
    /\ UNCHANGED <<agentVars, serVars, dbVars, llm_call, pub, wf, ws, boot>>

\* the task a trigger created gets to run: process_message with the
\* job's instruction, as invocation p for the p-th task created
JobRuns(p) ==
    /\ NextToArrive(p)
    /\ p \in DOMAIN sched.spawned
    /\ process_message_begin(p, sched.spawned[p])
    /\ arrival' = [arrival EXCEPT ![p] = Seen]
    /\ UNCHANGED <<serVars, dbVars, svcVars, lifeVars, action_local, trace, ret, resp>>

SchedStep ==
    \/ SchedStart
    \/ \E due \in DueOrders(sched.jobs) :
          \E done \in 0..Len(due) : SchedCheck(due, done)
    \/ SchedStop

(***************************************************************************)
(* GitTools.publish_kanban_to_github.  `pub` holds the GitHub settings,    *)
(* the tool's temp_dir and repo_path (0 for None, else the number of the   *)
(* directory mkdtemp made), the directories on disk, and the last run:     *)
(* the steps it took in order and what it returned.  _run is synchronous,  *)
(* so a run is one step.                                                   *)
(***************************************************************************)
GithubRepo == "acme/board"
GithubToken == "ghp_token"

PublishedText ==
    "Successfully published Kanban board to GitHub Pages!"
SkippedText ==
    "Kanban board HTML generated successfully, but GitHub repository not configured for publishing."
UpToDateText ==
    "No changes detected in Kanban board. GitHub Pages is already up to date."
PublishErrorPrefix == "Error publishing Kanban board to GitHub Pages: "

InitPub ==
    pub = [loaded |-> FALSE, github_repo |-> None, github_token |-> None,
           temp_dir |-> 0, repo_path |-> 0, disk |-> {}, made |-> 0,
           runs |-> 0, ops |-> <<>>, ret |-> None,
           last |-> [changed |-> FALSE, cloned |-> FALSE, failed |-> "none",
                     created |-> 0]]

\* _setup_temp_repo: clone when a repository is configured, a fresh
\* repository when none is or when the clone failed
SetupSteps(repo, clone_ok) ==
    <<"mkdtemp">>
      \o (IF repo # None
          THEN <<"clone">> \o (IF clone_ok THEN <<>> ELSE <<"init">>)
          ELSE <<"init">>)
      \o <<"config">>

\* index.html, the README text and file, git add, git diff --cached
RenderSteps == <<"write_index", "readme", "write_readme", "add", "diff">>

\* a commit whether or not anything was staged
AfterDiffAlwaysCommitting(changed, repo, token, cloned) ==
    <<"commit">> \o
      (IF repo # None /\ token # None
       THEN <<"remote_get_url">>
              \o (IF cloned THEN <<>> ELSE <<"remote_add">>)
              \o <<"push_main", "checkout_gh_pages", "push_gh_pages">>
       ELSE <<>>)

\* what follows the test of the staged changes
AfterDiff(changed, repo, token, cloned) ==
    IF changed
    THEN <<"commit">> \o
           (IF repo # None /\ token # None
            THEN <<"remote_get_url">>
                   \o (IF cloned THEN <<>> ELSE <<"remote_add">>)
                   \o <<"push_main", "checkout_gh_pages", "push_gh_pages">>
            ELSE <<>>)
    ELSE <<>>

\* the steps that raise when they fail: mkdtemp, the file writes, and the
\* git commands run with check=True
Failable ==
    {"mkdtemp", "init", "config", "write_index", "write_readme", "add",
     "commit", "remote_add", "push_main", "checkout_gh_pages",
     "push_gh_pages"}

\* the README text splits settings.github_repo, which raises on None
StepFails(step, fail_at, repo) ==
    \/ step = fail_at
    \/ step = "readme" /\ repo = None

\* index of the first step that raises, 0 when none does
FirstFailure(plan, fail_at, repo) ==
    LET failing == {i \in DOMAIN plan : StepFails(plan[i], fail_at, repo)} IN
    IF failing = {} THEN 0
    ELSE CHOOSE i \in failing : \A j \in failing : i <= j

\* str(e) of what a step raises
ErrorText(step) ==
    IF step = "readme" THEN "'NoneType' object has no attribute 'split'"
    ELSE "step failed: " \o step

\* _cleanup_temp_repo on the tool as the run left it; a failing rmtree is
\* logged and leaves the directory and both references as they were
cleanup_temp_repo(p, rmtree_ok) ==
    IF p.temp_dir # 0 /\ p.temp_dir \in p.disk
    THEN IF rmtree_ok
         THEN [p EXCEPT !.disk = @ \ {p.temp_dir}, !.temp_dir = 0,
                        !.repo_path = 0, !.ops = Append(@, "rmtree")]
         ELSE [p EXCEPT !.ops = Append(@, "rmtree_failed")]
    ELSE p

\* PublishKanbanTool._run
publish_run(p, clone_ok, changed, fail_at, rmtree_ok) ==
    LET repo == p.github_repo
        token == p.github_token
        cloned == repo # None /\ clone_ok
        plan == SetupSteps(repo, clone_ok) \o RenderSteps
                  \o AfterDiff(changed, repo, token, cloned)
        f == FirstFailure(plan, fail_at, repo)
        ops == IF f = 0 THEN plan ELSE SubSeq(plan, 1, f)
        made_dir == f # 1
        dir == p.made + 1
        result_message ==
               IF f # 0 THEN PublishErrorPrefix \o ErrorText(plan[f])
               ELSE IF ~changed THEN UpToDateText
               ELSE IF repo # None /\ token # None THEN PublishedText
               ELSE SkippedText
        ran == [p EXCEPT
                  !.runs = @ + 1,
                  !.made = IF made_dir THEN dir ELSE @,
                  !.temp_dir = IF made_dir THEN dir ELSE @,
                  !.repo_path = IF made_dir THEN dir ELSE @,
                  !.disk = IF made_dir THEN @ \cup {dir} ELSE @,
                  !.ops = ops,
                  !.ret = result_message,
                  !.last = [changed |-> changed, cloned |-> cloned,
                            failed |-> IF f = 0 THEN "none" ELSE plan[f],
                            created |-> IF made_dir THEN dir ELSE 0]]
    IN cleanup_temp_repo(ran, rmtree_ok)

\* the settings object, read once from the environment
LoadSettings(repo, token) ==
    /\ ~pub.loaded
    /\ pub' = [pub EXCEPT !.loaded = TRUE, !.github_repo = repo,
                          !.github_token = token]
    /\ UNCHANGED <<agentVars, serVars, dbVars, llm_call, sched, wf, ws, boot>>

\* one publish run.  A fresh repository always has something staged; a
\* clone has not when the rendered files equal the ones it holds.
Publish(clone_ok, changed, fail_at, rmtree_ok) ==
    /\ pub.loaded
    /\ pub.runs < MaxRuns
    /\ changed \/ (pub.github_repo # None /\ clone_ok)
    /\ LET next == publish_run(pub, clone_ok, changed, fail_at, rmtree_ok) IN
         /\ fail_at = "none" \/ next.last.failed = fail_at
         /\ pub' = next
    /\ UNCHANGED <<agentVars, serVars, dbVars, llm_call, sched, wf, ws, boot>>

PublishStep ==
    \/ \E repo \in {None, GithubRepo}, token \in {None, GithubToken} :
          LoadSettings(repo, token)
    \/ \E clone_ok, changed, rmtree_ok \in BOOLEAN :
          \E fail_at \in Failable \cup {"none"} :
             Publish(clone_ok, changed, fail_at, rmtree_ok)

(***************************************************************************)
(* The WorkflowSettings table and PUT /api/emails/settings.  `wf` holds    *)
(* the rows by setting_key, and the last request with the rows before it   *)
(* and its answer.  A JSON value of a request body is a tagged value.      *)
(***************************************************************************)
Num(n) == [t |-> "number", v |-> ToString(n)]
Bool(b) == [t |-> "boolean", v |-> IF b THEN "True" ELSE "False"]
Str(x) == [t |-> "string", v |-> x]

\* str(value)
py_str(value) == value.v

\* str(value).lower() for the values at hand
py_str_lower(value) ==
    IF value.t = "boolean"
    THEN (IF value.v = "True" THEN "true" ELSE "false")
    ELSE value.v

\* json.dumps(value)
json_dumps(value) ==
    IF value.t = "string" THEN "\"" \o value.v \o "\""
    ELSE py_str_lower(value)

Setting(value, type) == [setting_value |-> value, setting_type |-> type]

\* create_default_data: the rows of a fresh database
default_settings ==
    [k \in {"update_frequency", "reminder_days", "max_follow_ups",
            "auto_approve_changes", "email_check_interval", "llm_timeout",
            "email_signature", "business_hours_start",
            "business_hours_end"} |->
        IF k = "update_frequency" THEN Setting("\"weekly\"", "string")
        ELSE IF k = "reminder_days" THEN Setting("2", "number")
        ELSE IF k = "max_follow_ups" THEN Setting("3", "number")
        ELSE IF k = "auto_approve_changes" THEN Setting("false", "boolean")
        ELSE IF k = "email_check_interval" THEN Setting("300", "number")
        ELSE IF k = "llm_timeout" THEN Setting("30", "number")
        ELSE IF k = "email_signature"
             THEN Setting("\"Best regards,\\nAssistant Manager\\n"
                            \o "Automated Team Workflow System\"", "string")
        ELSE IF k = "business_hours_start" THEN Setting("9", "number")
        ELSE Setting("17", "number")]

\* the keys GET /api/emails/settings reads
email_settings ==
    {"email_check_interval", "max_follow_ups", "reminder_days",
     "email_signature", "business_hours_start", "business_hours_end"}

InitSettings ==
    wf = [rows |-> <<>>, before |-> <<>>, req |-> <<>>, served |-> FALSE,
          out |-> NoResponse]

\* the value a row is saved with
Stored(setting, value) ==
    IF setting.setting_type = "number" THEN py_str(value)
    ELSE IF setting.setting_type = "boolean" THEN py_str_lower(value)
    ELSE json_dumps(value)

\* update_email_settings: every key of the body that has a row
update_email_settings(rows, settings_data) ==
    LET found == DOMAIN settings_data \cap DOMAIN rows
        saved == [k \in DOMAIN rows |->
                    IF k \in found
                    THEN [rows[k] EXCEPT
                            !.setting_value = Stored(rows[k], settings_data[k])]
                    ELSE rows[k]]
        updated_count == Cardinality(found)
    IN  [rows |-> saved,
         out |-> Ok([message |-> "Updated " \o ToString(updated_count)
                                    \o " email settings",
                     updated_count |-> updated_count])]

\* lifespan start-up: initialize_database writes the default rows
CreateDefaultData ==
    /\ wf.rows = <<>>
    /\ wf' = [wf EXCEPT !.rows = default_settings]
    /\ UNCHANGED <<agentVars, serVars, dbVars, llm_call, sched, pub, ws, boot>>

SettingsBodies ==
    { [email_check_interval |-> Num(600)],
      [max_follow_ups |-> Num(5), email_signature |-> Str("Thanks")],
      [llm_timeout |-> Num(60)],
      [auto_approve_changes |-> Bool(TRUE), reminder_days |-> Num(1)],
      [update_frequency |-> Str("daily")],
      [no_such_setting |-> Num(1), business_hours_end |-> Num(18)] }

UpdateEmailSettings(settings_data) ==
    /\ wf.rows # <<>>
    /\ LET r == update_email_settings(wf.rows, settings_data) IN
         wf' = [rows |-> r.rows, before |-> wf.rows, req |-> settings_data,
                served |-> TRUE, out |-> r.out]
    /\ UNCHANGED <<agentVars, serVars, dbVars, llm_call, sched, pub, ws, boot>>

SettingsStep ==
    \/ CreateDefaultData
    \/ \E b \in SettingsBodies : UpdateEmailSettings(b)

(***************************************************************************)
(* ConnectionManager.  `ws` holds active_connections and, of the last      *)
(* broadcast, the list it started on, the sockets whose send raised, and   *)
(* the sockets a send was attempted on and went through on, in order.      *)
(***************************************************************************)
Sockets == 1..MaxConns

InitConnections ==
    ws = [active_connections |-> <<>>, start |-> <<>>, failing |-> {},
          tried |-> <<>>, sent |-> <<>>, broadcast |-> FALSE]

\* list.remove(x): the list without the first element equal to x
RECURSIVE list_remove(_, _)
list_remove(list, x) ==
    IF list = <<>> THEN <<>>
    ELSE IF Head(list) = x THEN Tail(list)
    ELSE <<Head(list)>> \o list_remove(Tail(list), x)

\* the for loop of broadcast over the list it also removes from: the
\* iterator holds a position, and the list is read again at each step
RECURSIVE broadcast_loop(_, _, _)
broadcast_loop(w, position, failing) ==
    IF position > Len(w.active_connections) THEN w
    ELSE LET connection == w.active_connections[position] IN
         IF connection \in failing
         THEN broadcast_loop(
                  [w EXCEPT !.tried = Append(@, connection),
                            !.active_connections =
                                list_remove(@, connection)],
                  position + 1, failing)
         ELSE broadcast_loop(
                  [w EXCEPT !.tried = Append(@, connection),
                            !.sent = Append(@, connection)],
                  position + 1, failing)

InList(list, x) == \E i \in DOMAIN list : list[i] = x

\* websocket_endpoint up to its receive loop: connect
Connect(websocket) ==
    /\ ~InList(ws.active_connections, websocket)
    /\ ws' = [ws EXCEPT !.active_connections = Append(@, websocket)]
    /\ UNCHANGED <<agentVars, serVars, dbVars, llm_call, sched, pub, wf, boot>>

\* websocket_endpoint on WebSocketDisconnect: disconnect
Disconnect(websocket) ==
    /\ InList(ws.active_connections, websocket)
    /\ ws' = [ws EXCEPT !.active_connections = list_remove(@, websocket)]
    /\ UNCHANGED <<agentVars, serVars, dbVars, llm_call, sched, pub, wf, boot>>

\* one broadcast; `failing` are the sockets whose send_json raises
Broadcast(failing) ==
    /\ ws' = broadcast_loop(
                 [ws EXCEPT !.start = ws.active_connections,
                            !.failing = failing, !.tried = <<>>,
                            !.sent = <<>>, !.broadcast = TRUE],
                 1, failing)
    /\ UNCHANGED <<agentVars, serVars, dbVars, llm_call, sched, pub, wf, boot>>

ConnectionStep ==
    \/ \E websocket \in Sockets : Connect(websocket)
    \/ \E websocket \in Sockets : Disconnect(websocket)
    \/ \E failing \in SUBSET Sockets : Broadcast(failing)

(***************************************************************************)
(* AssistantAgent.initialize step by step.  Every step catches what goes   *)
(* wrong inside it, so it ends "ok" or "logged"; "raised" is what a step   *)
(* that let its exception out would end with, which initialize catches.    *)
(* `boot` holds the steps that ran with how each ended.                    *)
(***************************************************************************)
ToolGroups == <<"email_tools", "kanban_tools", "analysis_tools", "git_tools">>

InitBoot ==
    boot = [returned |-> FALSE, raised |-> FALSE, steps |-> <<>>,
            failed_tools |-> {}]

\* a tool group whose failure leaves _initialize_tools
tool_initialize_unguarded(failed_tools, tool) ==
    IF tool \in failed_tools THEN "raised" ELSE "ok"

\* one pass of the loop of _initialize_tools
tool_initialize(failed_tools, tool) ==
    IF tool \in failed_tools THEN "logged" ELSE "ok"

\* _initialize_tools: "raised" if a pass raised, else "logged" if one failed
initialize_tools(failed_tools) ==
    LET ends == {tool_initialize(failed_tools, ToolGroups[i]) :
                    i \in DOMAIN ToolGroups} IN
    IF "raised" \in ends THEN "raised"
    ELSE IF "logged" \in ends THEN "logged" ELSE "ok"

Caught(ok) == IF ok THEN "ok" ELSE "logged"

\* the four awaits of initialize, in order, with how each ends
InitializeSteps(llm_ok, failed_tools, graph_ok, load_ok) ==
    << [step |-> "llm_service.initialize", end |-> Caught(llm_ok)],
       [step |-> "_initialize_tools", end |-> initialize_tools(failed_tools)],
       [step |-> "_setup_workflow", end |-> Caught(graph_ok)],
       [step |-> "_load_state", end |-> Caught(load_ok)] >>

\* the steps up to and including the first that raised
RanSteps(steps) ==
    LET raising == {i \in DOMAIN steps : steps[i].end = "raised"} IN
    IF raising = {} THEN steps
    ELSE SubSeq(steps, 1, CHOOSE i \in raising : \A j \in raising : i <= j)

StepEnded(steps, name, end) ==
    \E i \in DOMAIN steps : steps[i].step = name /\ steps[i].end = end

\* lifespan start-up: AssistantAgent.initialize, then set_assistant_agent
InitializeAgent(llm_ok, failed_tools, graph_ok, load_ok) ==
    LET ran == RanSteps(InitializeSteps(llm_ok, failed_tools, graph_ok,
                                        load_ok))
        completed == Len(ran) = 4 /\ ran[4].end # "raised"
    IN
    /\ ~registered
    /\ registered' = TRUE
    /\ is_active' = completed
    /\ llm_available' = llm_ok
    /\ graph' = StepEnded(ran, "_setup_workflow", "ok")
    /\ state' = IF StepEnded(ran, "_load_state", "ok")
                THEN load_state(state, persisted) ELSE state
    /\ ser_step' = IF StepEnded(ran, "_load_state", "ok") /\ persisted # <<>>
                   THEN "loaded" ELSE ser_step
    /\ boot' = [returned |-> TRUE, raised |-> FALSE, steps |-> ran,
                failed_tools |-> failed_tools]
    /\ UNCHANGED <<pc, action_local, msg, base, trace, ret, resp,
                   arrival, called, persisted, original, dbVars,
                   llm_call, sched, pub, wf, ws>>

BootStep ==
    \/ \E llm_ok, graph_ok, load_ok \in BOOLEAN :
          \E failed_tools \in SUBSET {ToolGroups[i] : i \in DOMAIN ToolGroups} :
             InitializeAgent(llm_ok, failed_tools, graph_ok, load_ok)
    \/ \E tools_ok \in BOOLEAN : Shutdown(tools_ok)

(***************************************************************************)
(* Messages made of the keywords: every keyword alone and every ordered    *)
(* pair of keywords, with a word of no family among them, and a few in     *)
(* capitals.                                                               *)
(***************************************************************************)
Keywords ==
    EmailWords \cup ResponseWords \cup TaskWords \cup ReportWords
      \cup BoardWords \cup GithubWords

KeywordMessages ==
    LET words == Keywords \cup {"hello"} IN
    words \cup {a \o " " \o b : a, b \in words}
      \cup {"Kanban BOARD", "Status REPORT for the Board", "PUBLISH Pages",
            "Please ADD it", "Good morning"}

(***************************************************************************)
(* The inbox monitor and the follow-up tool.  The mail client hands the    *)
(* monitor the recent emails of the addresses it was asked for, the active *)
(* members'.                                                               *)
(***************************************************************************)
ResponseKeywords == {"update", "status", "progress", "re:"}

\* a monitor that marks the member's newest pending thread
PendingThreadNewest(d, member) ==
    LET pending == { t \in DOMAIN d.EmailThread :
                       /\ d.EmailThread[t].team_member = member
                       /\ ~d.EmailThread[t].response_received }
    IN  IF pending = {} THEN 0
        ELSE CHOOSE t \in pending : \A u \in pending : u <= t

\* EmailThread.get_or_none(team_member == member, response_received ==
\* False): the first such row in key order, 0 for no row
PendingThread(d, member) ==
    LET pending == { t \in DOMAIN d.EmailThread :
                       /\ d.EmailThread[t].team_member = member
                       /\ ~d.EmailThread[t].response_received }
    IN  IF pending = {} THEN 0
        ELSE CHOOSE t \in pending : \A u \in pending : t <= u

\* the thread as the monitor saves it
MarkResponded(thread, email) ==
    [thread EXCEPT !.response_received = TRUE,
                   !.response_at = email.received_time,
                   !.status = "replied"]

\* the loop of MonitorInboxTool._run from email i on: the tables and the
\* responses collected
RECURSIVE monitor_loop(_, _, _, _)
monitor_loop(d, emails, i, responses) ==
    IF i > Len(emails) THEN [db |-> d, out |-> responses]
    ELSE LET email  == emails[i]
             member == MemberByEmail(d, email.sender_email)
         IN  IF member = 0 THEN monitor_loop(d, emails, i + 1, responses)
             ELSE IF ~AnyWordIn(Lower(email.subject), ResponseKeywords)
             THEN monitor_loop(d, emails, i + 1, responses)
             ELSE LET thread == PendingThread(d, member)
                      d1 == IF thread # 0
                            THEN [d EXCEPT !.EmailThread[thread] =
                                      MarkResponded(@, email)]
                            ELSE d
                  IN  monitor_loop(d1, emails, i + 1,
                         Append(responses,
                                [ sender |-> email.sender_email,
                                  subject |-> email.subject,
                                  received_time |-> email.received_time,
                                  team_member_id |-> member ]))

\* MonitorInboxTool._run: a failure to fetch the emails returns []
monitor_inbox_responses(d, emails, fetch_ok) ==
    IF fetch_ok THEN monitor_loop(d, emails, 1, <<>>)
    ELSE [db |-> d, out |-> <<>>]

\* SendFollowUpTool._run, the reminder template at hand
send_follow_up_email(d, recipient, sent_ok) ==
    LET member == MemberByEmail(d, recipient) IN
    IF member = 0
    THEN [db |-> d, out |-> "Error: Team member not found: " \o recipient]
    ELSE IF sent_ok
    THEN LET thread == PendingThread(d, member) IN
         [db |-> IF thread # 0
                 THEN [d EXCEPT !.EmailThread[thread].follow_up_count = @ + 1]
                 ELSE d,
          out |-> "Follow-up email sent to " \o recipient]
    ELSE [db |-> d,
          out |-> "Failed to send follow-up to " \o recipient
                    \o ": Unknown error"]

\* the addresses the monitor asks the mail client for
team_emails(d) ==
    { d.TeamMember[i].email : i \in { j \in DOMAIN d.TeamMember :
                                        d.TeamMember[j].active } }

InboxSenders == {"a@example.com", "b@example.com"}

InboxSubjects == {"RE: Friday", "Lunch"}

ReceivedTime == "received_time"

\* Ann answers, or writes about lunch; Bob is written to and never answers
InboxEmails ==
    { [sender_email |-> "a@example.com", subject |-> t,
       received_time |-> ReceivedTime] : t \in InboxSubjects }

EmailBatches ==
    UNION { [1..n -> InboxEmails] : n \in 1..MaxEmails }

\* the tables of the inbox model stay within its bounds
ServeInbox(request, result) ==
    /\ Cardinality(DOMAIN result.db.EmailThread) <= MaxInboxThreads
    /\ \A t \in DOMAIN result.db.EmailThread :
          result.db.EmailThread[t].follow_up_count <= MaxFollowUps
    /\ before' = db
    /\ req' = request
    /\ db' = result.db
    /\ out' = result.out
    /\ UNCHANGED <<agentVars, serVars, svcVars>>

InboxAddMember(member_data) ==
    /\ member_data.email \notin team_emails(db)
    /\ ServeInbox([op |-> "add_team_member", member_data |-> member_data],
                  add_team_member(db, member_data))

InboxSendRequest(member_email) ==
    ServeInbox([op |-> "send_team_update_request", email |-> member_email],
               send_team_update_request(db, member_email, TRUE))

MonitorInbox(emails, fetch_ok) ==
    /\ \A i \in DOMAIN emails : emails[i].sender_email \in team_emails(db)
    /\ ServeInbox([op |-> "monitor_inbox_responses", emails |-> emails,
                   fetch_ok |-> fetch_ok],
                  monitor_inbox_responses(db, emails, fetch_ok))

SendFollowUp(recipient, sent_ok) ==
    ServeInbox([op |-> "send_follow_up_email", recipient |-> recipient,
                sent_ok |-> sent_ok],
               send_follow_up_email(db, recipient, sent_ok))

InboxStep ==
    \/ \E b \in MemberBodies : InboxAddMember(b)
    \/ \E s \in InboxSenders : InboxSendRequest(s)
    \/ \E emails \in EmailBatches : MonitorInbox(emails, TRUE)
    \/ MonitorInbox(<<>>, FALSE)
    \/ \E sent_ok \in BOOLEAN : SendFollowUp("a@example.com", sent_ok)

(***************************************************************************)
(* Creating tasks in a column that already holds some: the POST route with *)
(* and without "order" in the body, and the create-task tool.              *)
(***************************************************************************)
OrderBodies ==
    { [ title |-> "Task", status |-> s, assignee_id |-> 1,
        priority |-> "medium", tags |-> <<>> ] : s \in {"todo", "done"} }
    \cup
    { [ title |-> "Task", status |-> "todo", assignee_id |-> 1,
        priority |-> "medium", order |-> o, tags |-> <<>> ] : o \in {0, 5} }

\* the board of this model holds at most MaxColumn tasks
ServeColumn(request, result) ==
    /\ Cardinality(DOMAIN result.db.Task) <= MaxColumn
    /\ before' = db
    /\ req' = request
    /\ db' = result.db
    /\ out' = result.out
    /\ UNCHANGED <<agentVars, serVars, svcVars>>

PostTask(body) ==
    ServeColumn([op |-> "post_task", body |-> body],
                create_task(db, TaskCreate(body)))

RunCreateTaskTool(status) ==
    ServeColumn([op |-> "create_task_tool", status |-> status],
                CreateTaskTool_run(db, "Task", "a@example.com", status,
                                   "medium"))

(***************************************************************************)
(* The two board fetches: GET /api/kanban/board and the publishing tool's  *)
(* _get_board_data.  Both select the tasks joined to their assignees, in   *)
(* key order, file them under the five columns and sort every column.      *)
(***************************************************************************)
ColumnIds == <<"todo", "in_progress", "review", "done", "blocked">>

\* list(TaskModel.select().join(TeamMemberModel)): the keys in ascending order
RECURSIVE SelectKeys(_)
SelectKeys(S) ==
    IF S = {} THEN <<>>
    ELSE LET first == CHOOSE x \in S : \A y \in S : x <= y
         IN  <<first>> \o SelectKeys(S \ {first})

select_join(d) ==
    SelectKeys({ t \in DOMAIN d.Task : d.Task[t].assignee \in DOMAIN d.TeamMember })

\* the entry the route appends for a task
route_task_data(d, t) ==
    [ id |-> t, title |-> d.Task[t].title, status |-> d.Task[t].status,
      assignee_id |-> d.Task[t].assignee, priority |-> d.Task[t].priority,
      order |-> d.Task[t].order, tags |-> d.Task[t].tags ]

\* the entry the publishing tool appends for a task: it has no "order"
tool_task_data(d, t) ==
    [ id |-> t, title |-> d.Task[t].title, status |-> d.Task[t].status,
      priority |-> d.Task[t].priority, tags |-> d.Task[t].tags,
      assignee |-> [ id |-> d.Task[t].assignee,
                     email |-> d.Task[t].assignee ] ]

\* x["order"] of an entry that has the key
key_order(x) == x.order

\* x.get("order", 0)
key_get_order(x) == IF "order" \in DOMAIN x THEN x.order ELSE 0

\* list.sort(key=...) is stable: an entry goes behind the entries whose
\* key is not larger.  keys is the sequence of the entries' keys.
RECURSIVE list_sort(_, _)
list_sort(entries, keys) ==
    IF entries = <<>> THEN <<>>
    ELSE LET n      == Len(entries)
             front  == list_sort(SubSeq(entries, 1, n - 1), SubSeq(keys, 1, n - 1))
             ahead  == Cardinality({ i \in 1..(n - 1) : keys[i] <= keys[n] })
         IN  SubSeq(front, 1, ahead) \o <<entries[n]>>
               \o SubSeq(front, ahead + 1, n - 1)

\* the entries of the tasks with the given status, in the order fetched
RECURSIVE Filed(_, _, _)
Filed(entries, status, i) ==
    IF i > Len(entries) THEN <<>>
    ELSE (IF entries[i].status = status THEN <<entries[i]>> ELSE <<>>)
           \o Filed(entries, status, i + 1)

\* GET /api/kanban/board: the columns
get_kanban_board(d) ==
    LET tasks   == select_join(d)
        entries == [i \in DOMAIN tasks |-> route_task_data(d, tasks[i])]
    IN  [c \in DOMAIN ColumnIds |->
            LET filed == Filed(entries, ColumnIds[c], 1) IN
            [ id |-> ColumnIds[c],
              tasks |-> list_sort(filed,
                           [i \in DOMAIN filed |-> key_order(filed[i])]) ]]

\* PublishKanbanTool._get_board_data: the columns
get_board_data(d) ==
    LET tasks   == select_join(d)
        entries == [i \in DOMAIN tasks |-> tool_task_data(d, tasks[i])]
    IN  [c \in DOMAIN ColumnIds |->
            LET filed == Filed(entries, ColumnIds[c], 1) IN
            [ id |-> ColumnIds[c],
              tasks |-> list_sort(filed,
                           [i \in DOMAIN filed |-> key_get_order(filed[i])]) ]]

GetKanbanBoard ==
    ServeColumn([op |-> "get_kanban_board"],
                [db |-> db, out |-> Ok(get_kanban_board(db))])

GetBoardData ==
    ServeColumn([op |-> "get_board_data"],
                [db |-> db, out |-> get_board_data(db)])

ColumnStep ==
    \/ GetKanbanBoard
    \/ GetBoardData
    \/ \E b \in MemberBodies : ServeColumn([op |-> "add_team_member"],
                                            add_team_member(db, b))
    \/ \E b \in OrderBodies : PostTask(b)
    \/ \E s \in {"todo", "done"} : RunCreateTaskTool(s)

(***************************************************************************)
(* Saving and loading a conversation of any length up to MaxMsgs.          *)
(***************************************************************************)
\* a conversation: kinds chosen freely, contents numbered by position
Conversation(kinds) ==
    [ i \in 1..Len(kinds) |->
        IF kinds[i] = "HumanMessage"
        THEN HumanMessage("message " \o ToString(i))
        ELSE AIMessage("message " \o ToString(i)) ]

Conversations ==
    { Conversation(k) :
        k \in UNION { [1..n -> {"HumanMessage", "AIMessage"}] : n \in 0..MaxMsgs } }

PopulatedState(messages) ==
    [ NewAgentState EXCEPT
        !.current_workflow = "weekly_update",
        !.active_tasks = << [ type   |-> "action_completed",
                              action |-> "generate_report",
                              result |-> "Status Report" ] >>,
        !.context = Put(Put(Put(EmptyContext, "action", "generate_report"),
                            "result", "Status Report"), "success", TRUE),
        !.workflow_step = "completed",
        !.messages = messages ]

SaveState ==
    /\ persisted' = save_state(state)
    /\ original' = <<state>>
    /\ ser_step' = "saved"
    /\ UNCHANGED <<agentVars, dbVars, svcVars>>

LoadState ==
    /\ persisted # <<>>
    /\ state' = load_state(state, persisted)
    /\ ser_step' = "loaded"
    /\ UNCHANGED <<lifeVars, pc, action_local, msg, base, trace, ret, resp,
                   arrival, called, persisted, original, dbVars, svcVars>>

vars == <<agentVars, serVars, dbVars, svcVars>>

InitSvc == InitLLM /\ InitSched /\ InitPub /\ InitSettings
             /\ InitBoot
             /\ InitConnections

Init == InitAgent /\ InitDB /\ InitSvc

\* an agent whose in-memory state holds a conversation of any length
InitSerial ==
    /\ InitDB
    /\ InitSvc
    /\ registered = TRUE /\ is_active = TRUE
    /\ graph = TRUE /\ llm_available = TRUE
    /\ \E c \in Conversations :
          state \in { [NewAgentState EXCEPT !.messages = c], PopulatedState(c) }
    /\ pc = [p \in Procs |-> "idle"]
    /\ action_local = [p \in Procs |-> None]
    /\ msg = [p \in Procs |-> ""]
    /\ base = [p \in Procs |-> 0]
    /\ trace = [p \in Procs |-> <<>>]
    /\ ret = [p \in Procs |-> None]
    /\ resp = [p \in Procs |-> NoResponse]
    /\ arrival = [p \in Procs |-> [registered |-> FALSE, is_active |-> FALSE]]
    /\ called = [p \in Procs |-> FALSE]
    /\ persisted = <<>>
    /\ original = <<>>
    /\ ser_step = "fresh"

\* the requests on the tables, with the agent registered or not
NextKanban ==
    \/ KanbanStep
    \/ Startup(TRUE, TRUE)

SpecKanban == Init /\ [][NextKanban]_vars

NextSerial == SaveState \/ LoadState

SpecSerial == InitSerial /\ [][NextSerial]_vars

\* the agent with its queries served one at a time
NextAgent == AgentStep

SpecAgent == Init /\ [][NextAgent]_vars

\* one message, any of AllMessages, put to the agent after its start-up
NextOneMessage ==
    \/ \E g, llm \in BOOLEAN : Startup(g, llm)
    \/ \E m \in AllMessages : NoneRunning /\ QueryAccepted(1, m)
    \/ PipelineStep(1)
    \/ \E o \in HandlerOutcomes : FallbackReturn(1, o)

SpecOneMessage == Init /\ [][NextOneMessage]_vars

\* one call of generate_simple_response, the service started or not
NextLLM ==
    \/ \E g, avail \in BOOLEAN : Startup(g, avail)
    \/ LLMStep

\* the scheduler beside the agent it was given.  The lifespan stops the
\* scheduler before it cleans the agent up; the agent going inactive under
\* a running scheduler is allowed here as well.
NextSched ==
    \/ \E g, avail \in BOOLEAN : Startup(g, avail)
    \/ SchedStep
    \/ \E tools_ok \in BOOLEAN : Shutdown(tools_ok)

SpecSched == Init /\ [][NextSched]_vars

NextTeam == TeamStep

SpecTeam == Init /\ [][NextTeam]_vars

NextConnections == ConnectionStep

SpecConnections == Init /\ [][NextConnections]_vars

NextBoot == BootStep

SpecBoot == Init /\ [][NextBoot]_vars

\* one message taken as far as analyze_request
NextClassify ==
    \/ Startup(TRUE, TRUE)
    \/ \E text \in KeywordMessages : NoneRunning /\ QueryAccepted(1, text)
    \/ AnalyzeRequest(1)

SpecClassify == Init /\ [][NextClassify]_vars

\* one message answered by the fallback path, the graph not built
NextFallback ==
    \/ \E avail \in BOOLEAN : Startup(FALSE, avail)
    \/ \E text \in KeywordMessages : NoneRunning /\ QueryAccepted(1, text)
    \/ \E o \in HandlerOutcomes : FallbackReturn(1, o)

SpecFallback == Init /\ [][NextFallback]_vars

\* queries that overlap: a query is accepted while another is still in the
\* pipeline, as nothing in query_agent or process_message waits for it
OverlapMessages == {MsgStatusQuestion, MsgNoKeyword}

NextOverlap ==
    \/ Startup(TRUE, TRUE)
    \/ \E p \in Procs, m \in OverlapMessages : QueryAccepted(p, m)
    \/ \E p \in Procs : PipelineStep(p)

SpecOverlap == Init /\ [][NextOverlap]_vars

NextInbox == InboxStep

SpecInbox == Init /\ [][NextInbox]_vars

NextColumn == ColumnStep

SpecColumn == Init /\ [][NextColumn]_vars

\* the scheduler's jobs run through the pipeline, one at a time
NextJobs ==
    \/ Startup(TRUE, TRUE)
    \/ SchedStart
    \/ \E due \in DueOrders(sched.jobs) : SchedCheck(due, Len(due))
    \/ \E p \in Procs : NoneRunning /\ JobRuns(p)
    \/ \E p \in Procs : PipelineStep(p)

SpecJobs == Init /\ [][NextJobs]_vars

NextPublish == PublishStep

NextSettings == SettingsStep

SpecSettings == Init /\ [][NextSettings]_vars

SpecPublish == Init /\ [][NextPublish]_vars

\* the event loop resumes a call that awaits its request or its pause
SpecLLM ==
    /\ Init
    /\ [][NextLLM]_vars
    /\ WF_vars(\E a \in Answers : LLMAttempt(a))

\* the event loop runs every invocation that can take its next stage
SpecAgentFair ==
    /\ Init
    /\ [][NextAgent]_vars
    /\ \A p \in Procs : WF_vars(PipelineStep(p))

(***************************************************************************)
(* Claims about the pipeline and the query route                           *)
(***************************************************************************)
IsPrefix(a, b) == Len(a) <= Len(b) /\ SubSeq(b, 1, Len(a)) = a

InGraph(p) ==
    pc[p] \in {"analyze_request", "execute_action", "in_handler",
               "handle_result", "update_state", "END"}

NothingArrivedAfter(p) ==
    \A q \in Procs : q > p => pc[q] \in {"idle", "rejected"}

\* what holds of an invocation's pipeline run in every state
PipelineSafety(p) ==
    /\ IsPrefix(trace[p], Pipeline)
    /\ (graph /\ pc[p] = "returned") =>
          /\ trace[p] = Pipeline
          /\ Len(state.messages) >= base[p] + 2
          /\ state.messages[base[p] + 1] = HumanMessage(msg[p])
          /\ state.messages[base[p] + 2] = AIMessage(ret[p])
          /\ NothingArrivedAfter(p) =>
                /\ Len(state.messages) = base[p] + 2
                /\ state.workflow_step = "completed"

C2_QueryGate ==
    \A p \in Procs : pc[p] # "idle" =>
        /\ ~arrival[p].registered =>
              /\ resp[p] = HTTPError(503, "Agent not available")
              /\ ~called[p]
        /\ (arrival[p].registered /\ ~arrival[p].is_active) =>
              /\ resp[p].status = 503
              /\ ~called[p]
        /\ (arrival[p].registered /\ arrival[p].is_active) =>
              /\ called[p]
              /\ resp[p].status \in {0, 200, 408}
              /\ (resp[p].status = 200) = (pc[p] = "returned")
              /\ pc[p] = "returned" =>
                    /\ ret[p] # None
                    /\ resp[p].response = ret[p]

\* a query rejected for want of an agent, then the same query answered 200
\* once the agent is registered and active
C2_Witness ==
    /\ resp[1] = HTTPError(503, "Agent not available")
    /\ msg[2] = MsgStatusQuestion
    /\ resp[2].status = 200
    /\ resp[2].response = "Status Report: Kanban Board Summary, Team Analysis"

\* the action each of the four example messages is said to be given
ClaimedAction(m) ==
    CASE m = MsgSyncBoard      -> "publish_to_github"
      [] m = MsgSendWeekly     -> "send_emails"
      [] m = MsgStatusQuestion -> "generate_report"
      [] m = MsgNoKeyword      -> "general_query"
      [] OTHER                 -> Classify(m)

\* C10: once analyze_request has run on one of the four example messages,
\* context.action is publish_to_github for "sync the board to github pages",
\* send_emails for "send weekly update to the team", generate_report for the
\* status question and general_query for the message without a keyword.
C10_ExampleClassification ==
    \A p \in Procs :
        pc[p] = "execute_action" =>
            Get(state.context, "action", None) = ClaimedAction(msg[p])

(***************************************************************************)
(* Claims about the routes and tools on the tables                         *)
(***************************************************************************)
Rows(table) == Cardinality(DOMAIN table)

\* the rows of `new` that `old` does not have
Added(old, new) == DOMAIN new \ DOMAIN old

\* `new` is `old` with rows added and no old row altered
Extends(old, new) ==
    /\ DOMAIN old \subseteq DOMAIN new
    /\ \A i \in DOMAIN old : new[i] = old[i]

\* C3: a route hands an already-classified HTTP error to the client with
\* its own status code: POST /api/kanban/tasks with an unknown assignee_id
\* answers 404, DELETE /api/kanban/tasks/{id} for a missing task answers
\* 404, and GET /api/agents/status with no agent registered answers 503.
C3_ClassifiedErrorsKeepTheirStatus ==
    /\ (req.op = "create_task"
           /\ req.task.assignee_id \notin DOMAIN before.TeamMember)
          => out.status = 404
    /\ (req.op = "delete_task" /\ req.task_id \notin DOMAIN before.Task)
          => out.status = 404
    /\ (req.op = "get_agent_status" /\ ~req.registered)
          => out.status = 503

\* C4: POST /api/emails/team-members with the email of an active member is
\* answered 400 and leaves the tables as they were; a member created with a
\* new email (the body leaving `active` at its default) has response_rate 0
\* and active = true.
C4_DuplicateActiveMemberIs400 ==
    req.op = "add_team_member" =>
        LET existing == MemberByEmail(before, req.member_data.email) IN
        /\ (existing # 0 /\ before.TeamMember[existing].active)
              => (out.status = 400 /\ db = before)
        /\ (existing = 0 /\ req.member_data.active)
              => /\ out.status = 200
                 /\ Rows(db.TeamMember) = Rows(before.TeamMember) + 1
                 /\ \A i \in Added(before.TeamMember, db.TeamMember) :
                        /\ db.TeamMember[i].email = req.member_data.email
                        /\ db.TeamMember[i].response_rate = 0
                        /\ db.TeamMember[i].active

\* C5: the create-task tool called with an email that matches no TeamMember
\* row returns the not-found error text as its result and writes nothing:
\* the Task and KanbanChange tables (and TeamMember) are as before.
C5_ToolUnknownAssigneeWritesNothing ==
    (req.op = "create_task_tool"
        /\ MemberByEmail(before, req.assignee_email) = 0)
    => /\ out = "Error: Team member not found with email: "
                    \o req.assignee_email
       /\ db.Task = before.Task
       /\ db.KanbanChange = before.KanbanChange
       /\ db = before

\* a tool call for an unknown email made while the board already holds a
\* task and its change record
C5_Witness ==
    /\ req.op = "create_task_tool"
    /\ req.assignee_email = UnknownEmail
    /\ Rows(before.Task) = 1
    /\ Rows(db.KanbanChange) = 1
    /\ out = "Error: Team member not found with email: x@example.com"

\* the fields of the body that the handler assigns: assignee_id and tags
\* whenever supplied, any other field when its value differs
FieldsUpdated(task, update_data) ==
    { f \in DOMAIN update_data :
        \/ f \in {"assignee_id", "tags"}
        \/ task[f] # update_data[f] }

\* C6: a PUT /api/kanban/tasks/{id} on an existing task that changes the
\* task's status adds exactly one KanbanChange row, of type "update" and
\* approved = false, whose payload lists the status field's old and new
\* values, and alters no earlier change record; a PUT that updates no field
\* adds no KanbanChange row.
C6_StatusUpdateRecordsOneChange ==
    (req.op = "update_task" /\ req.task_id \in DOMAIN before.Task
        /\ out.status = 200)
    => LET old     == before.Task[req.task_id]
           updated == FieldsUpdated(old, req.update_data)
           added   == Added(before.KanbanChange, db.KanbanChange)
       IN  /\ Extends(before.KanbanChange, db.KanbanChange)
           /\ "status" \in updated =>
                 /\ db.Task[req.task_id].status = req.update_data.status
                 /\ Cardinality(added) = 1
                 /\ \A c \in added :
                       /\ db.KanbanChange[c].change_type = "update"
                       /\ db.KanbanChange[c].approved = FALSE
                       /\ db.KanbanChange[c].task_id = req.task_id
                       /\ \E k \in DOMAIN db.KanbanChange[c].task_data.changes :
                             db.KanbanChange[c].task_data.changes[k] =
                                 ChangeText("status", old.status,
                                            req.update_data.status)
           /\ updated = {} =>
                 /\ added = {}
                 /\ db.Task = before.Task

\* a status change todo -> done recorded as the board's second change
C6_Witness ==
    /\ req.op = "update_task"
    /\ req.update_data = [status |-> "done"]
    /\ out.status = 200
    /\ before.Task[1].status = "todo"
    /\ db.Task[1].status = "done"
    /\ Rows(before.KanbanChange) = 1
    /\ db.KanbanChange[2].task_data.changes = <<"status: todo -> done">>

\* the ids of a batch
BatchIds(change_ids) == { change_ids[i] : i \in DOMAIN change_ids }

\* the change records a batch approves: those that exist and are unapproved
NewlyApproved(changes, change_ids) ==
    { id \in BatchIds(change_ids) \cap DOMAIN changes : ~changes[id].approved }

\* what approve_changes does to the tables, and the count in its message
ApprovalEffect ==
    LET newly == NewlyApproved(before.KanbanChange, req.change_ids) IN
    /\ DOMAIN db.KanbanChange = DOMAIN before.KanbanChange
    /\ \A id \in DOMAIN db.KanbanChange :
          db.KanbanChange[id] =
              IF id \in newly
              THEN [before.KanbanChange[id] EXCEPT !.approved = TRUE,
                                                  !.approved_at = Now]
              ELSE before.KanbanChange[id]
    /\ db.Task = before.Task
    /\ db.TeamMember = before.TeamMember
    /\ out.response.message = ApprovedText(Cardinality(newly))

\* C7: approve_changes on a batch of ids approves and stamps exactly the
\* records that exist and are not yet approved, leaves every other change
\* record and every task unchanged, and reports a count equal to the number
\* of records newly approved (0 for nonexistent, already approved or
\* repeated ids), in its message and in the count of its response data.
C7_ApprovalCountsNewlyApproved ==
    (req.op = "approve_changes" /\ out.status = 200)
    => /\ ApprovalEffect
       /\ out.response.data.count =
              Cardinality(NewlyApproved(before.KanbanChange, req.change_ids))

C9_RoundTripKeepsLastTen ==
    ser_step = "loaded" =>
        LET o == original[1]
            n == Len(o.messages)
            k == IF n <= 10 THEN n ELSE 10
        IN  /\ state.current_workflow = o.current_workflow
            /\ state.context = o.context
            /\ state.active_tasks = o.active_tasks
            /\ Len(state.messages) = k
            /\ \A i \in 1..k : state.messages[i] = o.messages[n - k + i]

\* a populated state with more than 10 messages of both classes went
\* through the persisted form
C9_Witness ==
    /\ ser_step = "loaded"
    /\ Len(original[1].messages) > 10
    /\ Len(state.messages) = 10
    /\ original[1].context # EmptyContext
    /\ original[1].active_tasks # <<>>
    /\ state.messages[1].kind = "AIMessage"
    /\ state.messages[10].kind = "HumanMessage"
    /\ state.messages[1].content = "message 3"

(***************************************************************************)
(* Claims about classification, handler failures and the fallback path     *)
(***************************************************************************)
\* the action each of the three test messages is said to be given
ClaimedTestAction(m) ==
    CASE m = MsgUpdateKanban     -> "board_status"
      [] m = MsgSendEmailUpdates -> "send_emails"
      [] m = MsgShowStatus       -> "generate_report"

\* C11: once analyze_request has run, context.action is board_status for
\* "update kanban board", send_emails for "send email updates" and
\* generate_report for "show me the status".
C11_KanbanRequestIsBoardStatus ==
    (pc[1] = "execute_action"
        /\ msg[1] \in {MsgUpdateKanban, MsgSendEmailUpdates, MsgShowStatus})
    => Get(state.context, "action", None) = ClaimedTestAction(msg[1])

\* what a handler returns when the tool call under it raised
ToolFailureResults ==
    { "Error generating report: tool failure",
      "Error publishing to GitHub: tool failure" }

\* C12: after execute_action, when the handler's tool call raised, the
\* error_count is above 0, last_error is set and the stored result is a
\* failure with success = false; when the handler succeeded error_count
\* is 0.
C12_HandlerFailureIsCounted ==
    \A p \in Procs :
        pc[p] = "handle_result" =>
            IF Get(state.context, "result", None) \in ToolFailureResults
            THEN /\ state.error_count > 0
                 /\ state.last_error # None
                 /\ Get(state.context, "success", TRUE) = FALSE
            ELSE state.error_count = 0

\* C13: without a graph, process_message("status report") returns, and
\* what it returns contains "fallback mode".
C13_StatusReportGetsFallbackReply ==
    (~graph /\ msg[1] = MsgStatusReport /\ pc[1] = "returned")
    => Contains(Lower(ret[1]), "fallback mode")

(***************************************************************************)
(* Claims about generate_simple_response                                   *)
(***************************************************************************)
AllFailed(requests) ==
    \A i \in DOMAIN requests :
        ~(requests[i].kind = "answer" /\ requests[i].status = 200
             /\ requests[i].text # "")

\* what holds of the call in every state
GenerateSafety ==
    LET n == Len(llm_call.requests) IN
    /\ n <= 3
    /\ llm_call.pc = "attempt" => (llm_call.available /\ n < 3 /\ AllFailed(llm_call.requests))
    /\ (llm_call.pc = "returned" /\ ~llm_call.available)
          => (llm_call.ret = NotAvailableText /\ n = 0)
    /\ (llm_call.pc = "returned" /\ llm_call.available)
          => /\ n >= 1
             /\ AllFailed(SubSeq(llm_call.requests, 1, n - 1))
             /\ IF AllFailed(llm_call.requests)
                THEN /\ n = 3
                     /\ llm_call.ret = "Error generating response: "
                                      \o FailureReason(llm_call.requests[3])
                ELSE llm_call.ret = llm_call.requests[n].text

\* C14: generate_simple_response always ends by returning a string: the
\* not-available text with no request when the service is unavailable;
\* otherwise at most 3 requests, the text of the first one answered 200
\* with non-empty output, a non-200 answer or an empty output leading to
\* the next attempt, and after the third failure an error string that
\* embeds the last failure's reason.
C14_GenerateReturnsWithinThreeAttempts ==
    /\ []GenerateSafety
    /\ [](llm_call.pc = "attempt" => <>(llm_call.pc = "returned"))

\* an empty output, then a non-200 answer, then a third failure: the error
\* string carries the third reason
C14_Witness ==
    /\ llm_call.pc = "returned"
    /\ Len(llm_call.requests) = 3
    /\ llm_call.requests[1].text = ""
    /\ llm_call.requests[2].status = 500
    /\ llm_call.ret = "Error generating response: Cannot connect to host"

(***************************************************************************)
(* Claims about the scheduler                                              *)
(***************************************************************************)
\* a step in which the scheduler created a process_message task
Spawns == Len(sched'.spawned) > Len(sched.spawned)

\* C15: while the scheduler runs, a due job calls process_message only if
\* the agent is active at that moment, and a check that failed leaves the
\* loop alive; once stop has returned, is_running is false, the loop task
\* is cancelled, no cadence is registered and no further process_message
\* call is triggered.
C15_SchedulerCallsOnlyAnActiveAgent ==
    /\ [][Spawns => (is_active /\ sched.is_running /\ ~sched.stop_returned)]_vars
    /\ []((sched.last.raised /\ ~sched.stop_returned)
            => (sched.is_running /\ sched.scheduler_task = "sleeping"))
    /\ [](sched.stop_returned
            => /\ ~sched.is_running
               /\ sched.scheduler_task = "cancelled"
               /\ sched.jobs = <<>>)
    /\ [][sched.stop_returned => sched'.spawned = sched.spawned]_vars

\* a check created a task for the active agent, the agent then went
\* inactive and a later check ran a due job without creating one, raised
\* on the next, and the scheduler was stopped after that
C15_Witness ==
    /\ sched.stop_returned
    /\ Len(sched.spawned) = 1
    /\ sched.last.ran # <<>>
    /\ ~sched.last.active
    /\ sched.last.raised

(***************************************************************************)
(* Claims about publishing                                                 *)
(***************************************************************************)
PublishReturned == pub.runs > 0

\* the commits and pushes of the last run, in order
RECURSIVE Writes(_)
Writes(ops) ==
    IF ops = <<>> THEN <<>>
    ELSE (IF Head(ops) \in {"commit", "push_main", "push_gh_pages"}
          THEN <<Head(ops)>> ELSE <<>>) \o Writes(Tail(ops))

Pushes(ops) == {i \in DOMAIN ops : ops[i] \in {"push_main", "push_gh_pages"}}

NotFullyConfigured == pub.github_repo = None \/ pub.github_token = None

\* C16: a publish run with no repository and/or no token configured, in
\* which no file or git operation fails and something is staged, still
\* writes the rendered board, returns the success text that notes remote
\* publishing was skipped, and pushes nothing.
C16_UnconfiguredPublishSucceedsLocally ==
    (PublishReturned /\ NotFullyConfigured /\ pub.last.changed
       /\ pub.last.failed \in {"none", "readme"})
      => /\ \E i \in DOMAIN pub.ops : pub.ops[i] = "write_index"
         /\ pub.ret = SkippedText
         /\ Pushes(pub.ops) = {}

AllWrites == <<"commit", "push_main", "push_gh_pages">>

\* C17: a publish run in which nothing failed reports "already up to date"
\* and makes no commit and no push when nothing is staged, and otherwise
\* makes exactly one commit, then the push of the default branch, then the
\* forced push of gh-pages.
C17_ChangedBoardIsCommittedAndPushed ==
    (PublishReturned /\ pub.last.failed = "none")
      => IF pub.last.changed
         THEN Writes(pub.ops) = AllWrites
         ELSE pub.ret = UpToDateText /\ Writes(pub.ops) = <<>>

\* C17 (amended): commits and pushes only ever come in the order commit,
\* push of the default branch, forced push of gh-pages, each at most once;
\* a run in which nothing failed makes none of them and reports "already
\* up to date" when nothing is staged, makes all three and reports the
\* publication when something is staged and a token is configured, and
\* makes the commit alone, reporting that publishing was skipped, when
\* something is staged and no token is configured.
C17_CommitThenPushesWhenConfigured ==
    PublishReturned
      => /\ IsPrefix(Writes(pub.ops), AllWrites)
         /\ (pub.last.failed = "none" /\ ~pub.last.changed)
              => (pub.ret = UpToDateText /\ Writes(pub.ops) = <<>>)
         /\ (pub.last.failed = "none" /\ pub.last.changed
                /\ pub.github_token # None)
              => (pub.ret = PublishedText /\ Writes(pub.ops) = AllWrites)
         /\ (pub.last.failed = "none" /\ pub.last.changed
                /\ pub.github_token = None)
              => (pub.ret = SkippedText /\ Writes(pub.ops) = <<"commit">>)

\* a second run, on a fresh repository after a failed clone, that staged
\* changes and published them
C17_Witness ==
    /\ pub.runs = 2
    /\ ~pub.last.cloned
    /\ pub.ret = PublishedText
    /\ Writes(pub.ops) = AllWrites
    /\ \E i \in DOMAIN pub.ops : pub.ops[i] = "remote_add"

\* C18: whenever a publish run has returned, the directory it created no
\* longer exists and the tool's temp_dir and repo_path are cleared.
C18_TempDirectoryIsGone ==
    PublishReturned
      => /\ pub.last.created \notin pub.disk
         /\ pub.temp_dir = 0
         /\ pub.repo_path = 0

(***************************************************************************)
(* Claims about the team-member routes                                     *)
(***************************************************************************)
UniqueEmails(d) ==
    \A i, j \in DOMAIN d.TeamMember :
        i # j => d.TeamMember[i].email # d.TeamMember[j].email

\* no task, thread or activity of d refers to member m
Unreferenced(d, m) ==
    /\ \A t \in DOMAIN d.Task : d.Task[t].assignee # m
    /\ \A t \in DOMAIN d.EmailThread : d.EmailThread[t].team_member # m
    /\ \A a \in DOMAIN d.AgentActivity : d.AgentActivity[a].team_member # m

Answered200 == out.status = 200

\* C19: whatever add, update and remove requests were served, no two
\* TeamMember rows share an email; a default remove only sets active to
\* false, keeping the row and every task and thread; adding the email of
\* a deactivated member reactivates that row under its id and creates no
\* row; a permanent remove takes the row and leaves no task, thread or
\* activity referring to it.
C19_TeamMembersKeepOneRowPerEmail ==
    /\ UniqueEmails(db)
    /\ (req.op = "remove_team_member" /\ Answered200 /\ ~req.permanent)
         => db = [before EXCEPT !.TeamMember[req.member_id].active = FALSE]
    /\ (req.op = "remove_team_member" /\ Answered200 /\ req.permanent)
         => /\ req.member_id \notin DOMAIN db.TeamMember
            /\ Unreferenced(db, req.member_id)
            /\ \A m \in DOMAIN before.TeamMember \ {req.member_id} :
                  /\ m \in DOMAIN db.TeamMember
                  /\ db.TeamMember[m] = before.TeamMember[m]
    /\ (req.op = "add_team_member"
           /\ MemberByEmail(before, req.member_data.email) # 0)
         => LET m == MemberByEmail(before, req.member_data.email) IN
            /\ DOMAIN db.TeamMember = DOMAIN before.TeamMember
            /\ ~before.TeamMember[m].active
                 => /\ Answered200
                    /\ out.response.id = m
                    /\ db.TeamMember[m].active
                    /\ db.TeamMember[m].email = req.member_data.email
                    /\ db.Task = before.Task
                    /\ db.EmailThread = before.EmailThread

\* a member with a task and a thread was removed for good while another
\* member stayed
C19_Witness ==
    /\ req.op = "remove_team_member"
    /\ req.permanent
    /\ Answered200
    /\ \E t \in DOMAIN before.Task : before.Task[t].assignee = req.member_id
    /\ \E t \in DOMAIN before.EmailThread :
          before.EmailThread[t].team_member = req.member_id
    /\ db.TeamMember # <<>>

(***************************************************************************)
(* Claims about the settings route                                         *)
(***************************************************************************)
\* C20: a served PUT /api/emails/settings leaves every row whose key is
\* outside the email allow-list as it was, and its updated_count is the
\* number of allow-listed keys of the body that have a row.
C20_OnlyEmailSettingsAreUpdated ==
    wf.served
      => /\ \A k \in DOMAIN wf.rows \ email_settings :
               wf.rows[k] = wf.before[k]
         /\ wf.out.response.updated_count =
               Cardinality(DOMAIN wf.req \cap email_settings
                              \cap DOMAIN wf.before)

(***************************************************************************)
(* Claims about the connection manager                                     *)
(***************************************************************************)
Times(list, x) == Cardinality({i \in DOMAIN list : list[i] = x})

\* C21: a broadcast attempts a send to every connection registered when it
\* starts; when it has returned, no connection whose send failed is still
\* registered, and every connection whose send does not fail has received
\* the payload exactly once and is still registered.
C21_BroadcastReachesEveryConnection ==
    ws.broadcast
      => \A i \in DOMAIN ws.start :
            LET c == ws.start[i] IN
            /\ InList(ws.tried, c)
            /\ c \in ws.failing => ~InList(ws.active_connections, c)
            /\ c \notin ws.failing
                 => /\ Times(ws.sent, c) = 1
                    /\ InList(ws.active_connections, c)

(***************************************************************************)
(* Claims about start-up                                                   *)
(***************************************************************************)
\* the agent as initialize left it
JustInitialized == boot.returned /\ ser_step # "saved"

DecisionTable ==
    << [words |-> {"email", "send", "update", "request"},
        action |-> "send_emails"],
       [words |-> {"response", "reply", "check", "monitor"},
        action |-> "check_responses"],
       [words |-> {"task", "create", "add"}, action |-> "create_task"],
       [words |-> {"status", "summary", "report"},
        action |-> "generate_report"],
       [words |-> {"kanban", "board"}, action |-> "board_status"],
       [words |-> {"github", "publish", "sync", "pages"},
        action |-> "publish_to_github"] >>

\* the action of the first family one of whose words is in the text
TableAction(text) ==
    LET low == Lower(text)
        hits == {i \in DOMAIN DecisionTable :
                    \E w \in DecisionTable[i].words : Contains(low, w)}
    IN  IF hits = {} THEN "general_query"
        ELSE DecisionTable[CHOOSE i \in hits : \A j \in hits : i <= j].action

RepliesFor(action) ==
    CASE action = "generate_report" ->
            { "Status Report: Kanban Board Summary, Team Analysis",
              "Error generating report: tool failure" }
      [] action = "send_emails" ->
            { "Sent update requests to team members",
              "Error sending emails: tool failure" }
      [] action = "board_status" ->
            { "Kanban Board Summary",
              "Error getting board status: tool failure" }
      [] action = "publish_to_github" ->
            { "Successfully published kanban board",
              "Error publishing to GitHub: tool failure" }
      [] OTHER -> {FallbackSentence}

\* C24: the reply of the fallback path to a message comes from the handler
\* of the action analyze_request gives that message, and is the capability
\* sentence exactly when that action is none of report, send-updates,
\* board-status and publish.
C24_FallbackClassifiesLikeThePipeline ==
    (pc[1] = "returned" /\ ~graph)
      => ret[1] \in RepliesFor(Classify(msg[1]))

(***************************************************************************)
(* Claims about overlapping invocations                                    *)
(***************************************************************************)
\* the replies the pipeline can generate for a message of its own
RepliesTo(message) ==
    { RunHandler(Classify(message),
                 [state EXCEPT !.messages = <<HumanMessage(message)>>],
                 o, llm_available) : o \in HandlerOutcomes }

ThroughGraph(p) == pc[p] = "returned" /\ trace[p] # <<>>

\* C25: overlapping invocations work on the one shared conversation: what
\* an invocation returns is read from that conversation as it stands at the
\* return (its last message when that is an AI message), whichever
\* invocation's message it was generated for; a caller can so be returned
\* a reply that was not generated for its own message.
C25_ReplyIsReadFromTheSharedConversation ==
    \A p \in Procs :
        ThroughGraph(p) =>
            \/ ret[p] = "Workflow completed successfully"
            \/ \E i \in DOMAIN state.messages :
                  /\ i > base[p] + 1
                  /\ state.messages[i] = AIMessage(ret[p])

\* a caller holds a reply generated for the other caller's message
C25_Witness ==
    \E p, q \in Procs :
        /\ p # q
        /\ ThroughGraph(p)
        /\ msg[p] # msg[q]
        /\ ret[p] \notin RepliesTo(msg[p])
        /\ ret[p] \in RepliesTo(msg[q])

(***************************************************************************)
(* Claims about the inbox monitor                                          *)
(***************************************************************************)
Monitored == req.op = "monitor_inbox_responses"

\* the emails of the batch that member m sent under a keyword subject
Replies(m) ==
    { i \in DOMAIN req.emails :
        /\ req.emails[i].sender_email = before.TeamMember[m].email
        /\ AnyWordIn(Lower(req.emails[i].subject), ResponseKeywords) }

PendingBefore(m) ==
    { t \in DOMAIN before.EmailThread :
        /\ before.EmailThread[t].team_member = m
        /\ ~before.EmailThread[t].response_received }

Marked(m) == { t \in PendingBefore(m) : db.EmailThread[t].response_received }

ActiveBefore == { m \in DOMAIN before.TeamMember : before.TeamMember[m].active }

Smaller(a, b) == IF a <= b THEN a ELSE b

RespondedAreReplied ==
    \A t \in DOMAIN db.EmailThread :
        db.EmailThread[t].response_received
          => /\ db.EmailThread[t].status = "replied"
             /\ db.EmailThread[t].response_at # None

MonitorLeavesRespondedAlone ==
    Monitored =>
        \A t \in DOMAIN before.EmailThread :
            before.EmailThread[t].response_received
              => db.EmailThread[t] = before.EmailThread[t]

MonitorOnlyMarks ==
    Monitored =>
        /\ DOMAIN db.EmailThread = DOMAIN before.EmailThread
        /\ \A t \in DOMAIN db.EmailThread :
              \/ db.EmailThread[t] = before.EmailThread[t]
              \/ /\ \E m \in ActiveBefore : t \in Marked(m)
                 /\ db.EmailThread[t] =
                       [before.EmailThread[t] EXCEPT
                          !.response_received = TRUE,
                          !.response_at = ReceivedTime,
                          !.status = "replied"]

ColumnBefore(status) ==
    Cardinality({ i \in DOMAIN before.Task : before.Task[i].status = status })

Created == DOMAIN db.Task \ DOMAIN before.Task

\* C27: a task created without an order, by POST /api/kanban/tasks or by
\* the create-task tool, gets as its order the number of tasks that were
\* in its status column; an order supplied in the body is stored as given.
C27_NewTaskTakesTheColumnSize ==
    \A t \in Created :
        /\ (req.op = "post_task" /\ "order" \in DOMAIN req.body)
              => db.Task[t].order = req.body.order
        /\ (req.op = "post_task" /\ "order" \notin DOMAIN req.body)
              => db.Task[t].order = ColumnBefore(db.Task[t].status)
        /\ req.op = "create_task_tool"
              => db.Task[t].order = ColumnBefore(db.Task[t].status)

(***************************************************************************)
(* Claims about the two board fetches                                      *)
(***************************************************************************)
\* the task keys of every column, in sequence
TaskKeys(columns) ==
    [c \in DOMAIN columns |->
        [ id |-> columns[c].id,
          tasks |-> [i \in DOMAIN columns[c].tasks |-> columns[c].tasks[i].id] ]]

\* C28: the publishing tool's board fetch and the HTTP board endpoint give
\* the same five columns holding the same tasks in the same sequence, each
\* task in the column of its status, every column sorted by display order.
C28_BothFetchesGiveTheSameBoard ==
    TaskKeys(get_board_data(db)) = TaskKeys(get_kanban_board(db))

(***************************************************************************)
(* Claims about the labels of analyze_request and the registry's keys      *)
(***************************************************************************)
LabelsWithoutHandler == {"general_query", "status_check", "error"}

\* C29: every action label analyze_request writes, other than
\* general_query, status_check and error, is a key of the tool registry,
\* so execute_action runs the label's own handler and never the
\* general-query fallback for it.
C29_EveryLabelIsARegistryKey ==
    \A p \in Procs :
        (pc[p] = "in_handler" /\ action_local[p] \notin LabelsWithoutHandler)
          => action_local[p] \in ToolRegistry

(***************************************************************************)
(* Claims about the actions the scheduler's jobs take                      *)
(***************************************************************************)
Classified(p) == pc[p] \in {"in_handler", "handle_result", "update_state", "END"}

\* C30: the three instructions of the scheduler get three different
\* actions from analyze_request: the weekly-outreach instruction
\* send_emails, the deadline-sweep and the board-maintenance instruction
\* something else, so that neither of these two takes the outreach action.
C30_EachJobTakesItsOwnAction ==
    \A p \in Procs :
        Classified(p) =>
            /\ msg[p] = WeeklyInstruction => action_local[p] = "send_emails"
            /\ msg[p] \in {DeadlineInstruction, MaintenanceInstruction}
                  => action_local[p] # "send_emails"
            /\ \A q \in Procs :
                  (Classified(q) /\ msg[q] # msg[p])
                    => action_local[q] # action_local[p]
====
